---- MODULE Spec2Model ----
(***************************************************************************)
(* Multi-peer registry and websocket broadcast fan-out of the EEBUS device *)
(* tester (type hems): the peers map guarded by peersMu, the global        *)
(* use-case state guarded by ucMu, the websocket client set guarded by     *)
(* wsMu and the log buffer guarded by logMu.                               *)
(*                                                                         *)
(* Goroutines are processes with a program counter.  A step is the code    *)
(* between two points at which a goroutine can block (a Mutex.Lock or a    *)
(* WriteMessage) or touches shared memory without a lock.                  *)
(***************************************************************************)
EXTENDS Integers, Sequences, FiniteSets, TLC

(* ------------------------------ bounds -------------------------------- *)
\* goroutines of the protocol engine that call event handlers and loggers
NWorkers == 2
\* websocket clients that may connect to /ws/logs (one handler goroutine each)
NConns == 2
\* operations the workers start in one behaviour
MaxOps == 3
\* operations the workers start in one behaviour of a scenario specification
MaxScenarioOps == 2
\* value stored in h.maxLogs (1000 in the program), scaled down so that the
\* buffer overflows within MaxOps appends
DefaultMaxLogs == 2

(* ------------------------------ domains ------------------------------- *)
Workers == 1..NWorkers
Conns == (NWorkers + 1)..(NWorkers + NConns)
Procs == Workers \cup Conns

SKIs == {"s1", "s2"}
NoSki == ""

\* sync.Mutex values of the program
Mutexes == {"peersMu", "ucMu", "wsMu", "logMu"}
Free == 0

\* nil *peerData
Nil == 0

\* names given to setUsecaseSupported / setUsecaseSupportedForPeer
AllUseCases ==
    {"LPP", "LPC", "EVCC", "EVCEM", "EVSECC", "CEVC", "MPC", "MGCP", "OPEV", "OSCEV", "EVSOC"}
\* use cases enabled by the configuration the main specification runs under
CoreUseCases == {"LPP", "LPC"}

SupportUpdate == "UseCaseSupportUpdate"
DataUpdate == "DataUpdate"
Events == {SupportUpdate, DataUpdate}
\* case cemcevc.DataUpdateEnergyDemand of HandleEgCevc, which stores two fields
DataUpdateEnergyDemand == "DataUpdateEnergyDemand"
\* the event kinds a handler's switch distinguishes
EventsOf(handler) ==
    IF handler = "HandleEgCevc" THEN Events \cup {DataUpdateEnergyDemand} ELSE Events

VARIABLES
    peers,               \* h.peers: map ski -> *peerData (a heap index)
    heap,                \* the peerData objects ever allocated, by index
    removed,             \* history: heap indices deleted from h.peers by removePeer
    globalUseCaseState,  \* h.globalUseCaseState: map name -> bool
    logs,                \* h.logs
    maxLogs,             \* h.maxLogs
    appended,            \* history: every line appended to h.logs, in order
    lineCtr,             \* history: number of lines submitted (line identities)
    wsConns,             \* h.wsConns: set of *websocket.Conn
    health,              \* per connection: "ok", "broken" (writes and reads fail), "stalled"
    received,            \* per connection: the messages written to it, with the writer
    pushes,              \* history: WriteMessage calls made on a connection by broadcast loops
    evicted,             \* history: connections deleted from wsConns after a failed push
    mu,                  \* holder of each mutex, or Free
    pc,                  \* position of each goroutine
    loc,                 \* locals of each goroutine
    ops                  \* operations started by workers so far

vars == <<peers, heap, removed, globalUseCaseState, logs, maxLogs, appended, lineCtr,
          wsConns, health, received, pushes, evicted, mu, pc, loc, ops>>

regVars == <<peers, heap, removed>>
logVars == <<logs, maxLogs, appended>>
wsVars == <<wsConns, health, received, pushes, evicted>>

(* ------------------------------ Go maps ------------------------------- *)
EmptyMap == [k \in {} |-> 0]
Put(m, k, v) == [x \in (DOMAIN m) \cup {k} |-> IF x = k THEN v ELSE m[x]]
Del(m, k) == [x \in (DOMAIN m) \ {k} |-> m[x]]

(* ------------------------------ messages ------------------------------ *)
NoMsg == [type |-> "none"]
LogMsg(line) == [type |-> "log", line |-> line]
UsecaseMsg(name, supported, ski) ==
    [type |-> "usecase", name |-> name, supported |-> supported, ski |-> ski]
\* the usecase message of the /ws/logs snapshot carries no ski
UsecaseSnapshotMsg(name, supported) ==
    [type |-> "usecase", name |-> name, supported |-> supported]
PeersMsg(infos) == [type |-> "peers", peers |-> infos]
EntitiesMsg(ski, ents) == [type |-> "entities", ski |-> ski, entities |-> ents]

(* ------------------------------ records ------------------------------- *)
\* usecaseData{}: every field at its zero value; one field per use case, and
\* CevcChargeStrategy next to the CEVC field (CevcEnergyDemand)
UsecaseDataFields == AllUseCases \cup {"CevcChargeStrategy"}
ZeroUsecaseData == [u \in UsecaseDataFields |-> 0]
DataValues == {1}

\* the record without its identifier
NewPeerData_NoSki(ski) ==
    [ski |-> NoSki, connected |-> FALSE, usecaseState |-> EmptyMap,
     usecaseData |-> ZeroUsecaseData, entities |-> "nil", lastEntitiesJSON |-> "nil",
     deviceName |-> ""]

\* &peerData{usecaseData: usecaseData{}, entities: nil, usecaseState: make(..),
\*           connected: false, ski: ski, lastSeen: time.Now()}
\* lastSeen holds wall-clock time and is not modelled.
NewPeerData(ski) ==
    [ski |-> ski, connected |-> FALSE, usecaseState |-> EmptyMap,
     usecaseData |-> ZeroUsecaseData, entities |-> "nil", lastEntitiesJSON |-> "nil",
     deviceName |-> ""]

\* locals of a goroutine that runs nothing
\* err == nil, and the errors a write to an entity returns
NoErr == "nil"
WriteErrs == {"timeout", "rejected"}

\* a /api/write request: the payload's cmd, ski and value, the entities
\* RemoteEntitiesScenarios returned and those still to visit, errs, the value
\* the Write function returned and the response; tried and results record
\* the entity writes made and what each returned
NoWrite ==
    [cmd |-> "", ski |-> NoSki, valueOk |-> FALSE, entities |-> <<>>, todo |-> <<>>,
     errs |-> <<>>, ret |-> <<>>, status |-> "", body |-> <<>>,
     tried |-> <<>>, results |-> <<>>]

\* the locals of a Trace / Debug call; config is h.config as the call finds
\* it: "nil" until run() has loaded the configuration
NoLog ==
    [level |-> "", enableTrace |-> FALSE, enableDebug |-> FALSE, stdout |-> FALSE,
     config |-> "loaded"]

\* the body of a response: a text, a list of PeerInfo, log lines, the use-case
\* states or a usecaseData, whichever the endpoint answers with
\* a polling request: its endpoint and ski parameter, whether writing the
\* response fails, and the status and body it answered
NoBody ==
    [text |-> "", peers |-> {}, logs |-> <<>>, usecases |-> EmptyMap, data |-> ZeroUsecaseData]
NoPoll == [endpoint |-> "", ski |-> NoSki, encodeErr |-> FALSE, status |-> "", body |-> NoBody]

NoLocals ==
    [op |-> "", ski |-> NoSki, name |-> "", val |-> FALSE, event |-> "", dev |-> FALSE,
     err |-> FALSE, calls |-> 0, peer |-> Nil, stack |-> <<>>, defer |-> {},
     pending |-> {}, blocked |-> 0, msg |-> NoMsg, visited |-> {}, entries |-> <<>>,
     snap |-> <<>>, line |-> [id |-> 0, tag |-> ""], value |-> 0,
     \* history of the running operation: the messages it has handed to a
     \* broadcast loop, whether its last write of a use-case flag stored the value
     \* already there, and the peer's flag when the handler began
     \* also whether getOrCreatePeer found the record in the map, and the
     \* connections the running broadcast loop set out to write to
     sent |-> <<>>, same |-> FALSE, pre |-> "unknown", found |-> FALSE, targets |-> {},
     \* and whether a write of the operation changed globalUseCaseState
     gchanged |-> FALSE,
     \* the map getAllPeers returned to the caller
     all |-> [live |-> FALSE, val |-> EmptyMap],
     \* the locals of a /api/write request
     w |-> NoWrite,
     \* the level of a Trace or Debug call, the logging configuration it reads
     \* and whether it printed its line to stdout
     log |-> NoLog,
     \* the slice getLogs returned to the caller, and the number of lines that
     \* had been appended when it returned
     copyLogs |-> [live |-> FALSE, val |-> <<>>, n |-> 0],
     \* the messages of the operation that json.Marshal failed to encode
     failed |-> <<>>,
     \* a call of extractSKIFromMessage on a message given character by
     \* character: the message, the result and the keys of h.peers it ranged over
     x |-> [msg |-> <<>>, ski |-> <<>>, known |-> {}],
     \* the locals of a polling request
     poll |-> NoPoll]

Holds(p, m) == mu[m] = p
Release(ms) == [m \in Mutexes |-> IF m \in ms THEN Free ELSE mu[m]]

\* return from a function: continue at the label on top of the stack, or
\* end the operation when the stack is empty
Continue(l) == IF l.stack = <<>> THEN "idle" ELSE Head(l.stack)
Pop(l) == [l EXCEPT !.stack = IF @ = <<>> THEN <<>> ELSE Tail(@)]

(* ------------------------------- Init --------------------------------- *)
\* run(): maxLogs = 1000, logs empty, globalUseCaseState made and set to false
\* for every enabled use case (and "EVCS"); peers and wsConns empty
InitWith(enabled) ==
    /\ peers = EmptyMap
    /\ heap = <<>>
    /\ removed = {}
    /\ globalUseCaseState = [n \in enabled \cup {"EVCS"} |-> FALSE]
    /\ logs = <<>>
    /\ maxLogs = DefaultMaxLogs
    /\ appended = <<>>
    /\ lineCtr = 0
    /\ wsConns = {}
    /\ health = [c \in Conns |-> "ok"]
    /\ received = [c \in Conns |-> <<>>]
    /\ pushes = [c \in Conns |-> 0]
    /\ evicted = {}
    /\ mu = [m \in Mutexes |-> Free]
    /\ pc = [p \in Procs |-> IF p \in Workers THEN "idle" ELSE "ws_new"]
    /\ loc = [p \in Procs |-> NoLocals]
    /\ ops = 0

Init == InitWith(CoreUseCases)

\* a worker may start a new operation
CanStart(p) == p \in Workers /\ pc[p] = "idle" /\ ops < MaxOps

(* --------------------------- getOrCreatePeer -------------------------- *)
\* h.peersMu.Lock() without mutual exclusion
getOrCreatePeer_Lock_NoExclusion(p) ==
    /\ pc[p] = "gocp_lock"
    /\ mu' = [mu EXCEPT !["peersMu"] = p]
    /\ pc' = [pc EXCEPT ![p] = "gocp_find"]
    /\ UNCHANGED <<regVars, globalUseCaseState, logVars, lineCtr, wsVars, loc, ops>>

\* h.peersMu.Lock(); defer h.peersMu.Unlock()
getOrCreatePeer_Lock(p) ==
    /\ pc[p] = "gocp_lock"
    /\ mu["peersMu"] = Free
    /\ mu' = [mu EXCEPT !["peersMu"] = p]
    /\ pc' = [pc EXCEPT ![p] = "gocp_find"]
    /\ UNCHANGED <<regVars, globalUseCaseState, logVars, lineCtr, wsVars, loc, ops>>

\* the lookup, with an existing record seeded again from globalUseCaseState
getOrCreatePeer_Find_Reseed(p) ==
    /\ pc[p] = "gocp_find"
    /\ LET l == loc[p] IN
       IF l.ski \in DOMAIN peers
       THEN /\ loc' = [loc EXCEPT ![p] = Pop([l EXCEPT !.peer = peers[l.ski], !.found = TRUE])]
            /\ pc' = [pc EXCEPT ![p] = Continue(l)]
            /\ mu' = Release({"peersMu"})
            /\ heap' = [heap EXCEPT ![peers[l.ski]].usecaseState = globalUseCaseState]
       ELSE /\ pc' = [pc EXCEPT ![p] = "gocp_new"]
            /\ UNCHANGED <<loc, mu, heap>>
    /\ UNCHANGED <<peers, removed, globalUseCaseState, logVars, lineCtr, wsVars, ops>>

\* if peer, exists := h.peers[ski]; exists { return peer }
getOrCreatePeer_Find(p) ==
    /\ pc[p] = "gocp_find"
    /\ LET l == loc[p] IN
       IF l.ski \in DOMAIN peers
       THEN /\ loc' = [loc EXCEPT ![p] = Pop([l EXCEPT !.peer = peers[l.ski], !.found = TRUE])]
            /\ pc' = [pc EXCEPT ![p] = Continue(l)]
            /\ mu' = Release({"peersMu"})
       ELSE /\ pc' = [pc EXCEPT ![p] = "gocp_new"]
            /\ UNCHANGED <<loc, mu>>
    /\ UNCHANGED <<regVars, globalUseCaseState, logVars, lineCtr, wsVars, ops>>

\* peer := &peerData{...}; h.peers[ski] = peer
getOrCreatePeer_New(p) ==
    /\ pc[p] = "gocp_new"
    /\ heap' = Append(heap, NewPeerData(loc[p].ski))
    /\ peers' = Put(peers, loc[p].ski, Len(heap) + 1)
    /\ loc' = [loc EXCEPT ![p].peer = Len(heap) + 1]
    /\ pc' = [pc EXCEPT ![p] = "gocp_seed"]
    /\ UNCHANGED <<removed, globalUseCaseState, logVars, lineCtr, wsVars, mu, ops>>

\* return peer without the copy of globalUseCaseState
getOrCreatePeer_Seed_NoCopy(p) ==
    /\ pc[p] = "gocp_seed"
    /\ mu["ucMu"] = Free
    /\ loc' = [loc EXCEPT ![p] = Pop(loc[p])]
    /\ pc' = [pc EXCEPT ![p] = Continue(loc[p])]
    /\ mu' = Release({"peersMu"})
    /\ UNCHANGED <<regVars, globalUseCaseState, logVars, lineCtr, wsVars, ops>>

\* ucMu.Lock(); for uc, supported := range h.globalUseCaseState {...}; ucMu.Unlock()
\* return peer (the deferred Unlock releases peersMu)
getOrCreatePeer_Seed(p) ==
    /\ pc[p] = "gocp_seed"
    /\ mu["ucMu"] = Free
    /\ LET l == loc[p] IN
       /\ heap' = [heap EXCEPT ![l.peer].usecaseState =
                      [n \in (DOMAIN @) \cup (DOMAIN globalUseCaseState) |->
                          IF n \in DOMAIN globalUseCaseState
                          THEN globalUseCaseState[n] ELSE @[n]]]
       /\ loc' = [loc EXCEPT ![p] = Pop(l)]
       /\ pc' = [pc EXCEPT ![p] = Continue(l)]
    /\ mu' = Release({"peersMu"})
    /\ UNCHANGED <<peers, removed, globalUseCaseState, logVars, lineCtr, wsVars, ops>>

(* ------------------------------ removePeer ---------------------------- *)
\* removePeer emptying the whole map
removePeer_ClearAll(p) ==
    /\ CanStart(p)
    /\ mu["peersMu"] = Free
    /\ \E ski \in SKIs :
        /\ peers' = EmptyMap
        /\ removed' = IF ski \in DOMAIN peers THEN removed \cup {peers[ski]} ELSE removed
        /\ loc' = [loc EXCEPT ![p] = [NoLocals EXCEPT !.op = "removePeer", !.ski = ski]]
    /\ ops' = ops + 1
    /\ UNCHANGED <<heap, globalUseCaseState, logVars, lineCtr, wsVars, mu, pc>>

\* h.peersMu.Lock(); delete(h.peers, ski); h.peersMu.Unlock()
removePeer(p) ==
    /\ CanStart(p)
    /\ mu["peersMu"] = Free
    /\ \E ski \in SKIs :
        /\ peers' = Del(peers, ski)
        /\ removed' = IF ski \in DOMAIN peers THEN removed \cup {peers[ski]} ELSE removed
        /\ loc' = [loc EXCEPT ![p] = [NoLocals EXCEPT !.op = "removePeer", !.ski = ski]]
    /\ ops' = ops + 1
    /\ UNCHANGED <<heap, globalUseCaseState, logVars, lineCtr, wsVars, mu, pc>>

(* ----------------------------- getAllPeers ---------------------------- *)
\* a map value a caller holds: a map of its own, or h.peers itself
MapCopy(m) == [live |-> FALSE, val |-> m]
MapAlias == [live |-> TRUE, val |-> EmptyMap]
Deref(r) == IF r.live THEN peers ELSE r.val

\* getAllPeers returning h.peers itself
getAllPeers_Live(p) ==
    /\ CanStart(p)
    /\ mu["peersMu"] = Free
    /\ loc' = [loc EXCEPT ![p] = [NoLocals EXCEPT !.op = "getAllPeers", !.all = MapAlias]]
    /\ ops' = ops + 1
    /\ UNCHANGED <<regVars, globalUseCaseState, logVars, lineCtr, wsVars, mu, pc>>

\* peersCopy := make(...); for k, v := range h.peers { peersCopy[k] = v }; return peersCopy
getAllPeers(p) ==
    /\ CanStart(p)
    /\ mu["peersMu"] = Free
    /\ loc' = [loc EXCEPT ![p] = [NoLocals EXCEPT !.op = "getAllPeers",
                                      !.all = MapCopy([k \in DOMAIN peers |-> peers[k]])]]
    /\ ops' = ops + 1
    /\ UNCHANGED <<regVars, globalUseCaseState, logVars, lineCtr, wsVars, mu, pc>>

(* --------------------------- broadcast loop --------------------------- *)
\* c.Close(); delete(h.wsConns, c) without the delete
Evict_KeepConn(c) == wsConns

\* c.Close(); delete(h.wsConns, c)
Evict(c) == wsConns \ {c}

\* h.wsMu.Lock(); defer h.wsMu.Unlock(); for c := range h.wsConns {
broadcast_Lock(p) ==
    /\ pc[p] = "bc_lock"
    /\ mu["wsMu"] = Free
    /\ mu' = [mu EXCEPT !["wsMu"] = p]
    /\ loc' = [loc EXCEPT ![p].pending = wsConns, ![p].targets = wsConns,
                          ![p].sent = Append(@, loc[p].msg)]
    /\ pc' = [pc EXCEPT ![p] = "bc_loop"]
    /\ UNCHANGED <<regVars, globalUseCaseState, logVars, lineCtr, wsVars, ops>>

\* the outcome of c.WriteMessage(websocket.TextMessage, b) in a broadcast loop:
\* if err != nil { c.Close(); delete(h.wsConns, c) }
PushTo(p, c) ==
    /\ pushes' = [pushes EXCEPT ![c] = @ + 1]
    /\ IF health[c] = "ok"
       THEN /\ received' = [received EXCEPT ![c] = Append(@, [m |-> loc[p].msg, by |-> p])]
            /\ UNCHANGED <<wsConns, evicted>>
       ELSE /\ wsConns' = Evict(c)
            /\ evicted' = evicted \cup {c}
            /\ UNCHANGED received

\* one iteration of: for c := range h.wsConns { c.WriteMessage(...) }
broadcast_Write(p) ==
    /\ pc[p] = "bc_loop"
    /\ \E c \in loc[p].pending :
        /\ health[c] # "stalled"
        /\ PushTo(p, c)
        /\ loc' = [loc EXCEPT ![p].pending = @ \ {c}]
    /\ UNCHANGED <<regVars, globalUseCaseState, logVars, lineCtr, health, mu, pc, ops>>

\* WriteMessage on a connection whose client does not read: the call does not return
broadcast_Block(p) ==
    /\ pc[p] = "bc_loop"
    /\ \E c \in loc[p].pending :
        /\ health[c] = "stalled"
        /\ loc' = [loc EXCEPT ![p].blocked = c]
    /\ pc' = [pc EXCEPT ![p] = "bc_blocked"]
    /\ UNCHANGED <<regVars, globalUseCaseState, logVars, lineCtr, wsVars, mu, ops>>

\* the blocked WriteMessage returns an error once the connection has broken
broadcast_Unblock(p) ==
    /\ pc[p] = "bc_blocked"
    /\ health[loc[p].blocked] = "broken"
    /\ PushTo(p, loc[p].blocked)
    /\ loc' = [loc EXCEPT ![p].pending = @ \ {loc[p].blocked}, ![p].blocked = 0]
    /\ pc' = [pc EXCEPT ![p] = "bc_loop"]
    /\ UNCHANGED <<regVars, globalUseCaseState, logVars, lineCtr, health, mu, ops>>

\* end of the range loop; the function returns and its deferred Unlocks run
broadcast_End(p) ==
    /\ pc[p] = "bc_loop"
    /\ loc[p].pending = {}
    /\ mu' = Release(loc[p].defer)
    /\ pc' = [pc EXCEPT ![p] = Continue(loc[p])]
    /\ loc' = [loc EXCEPT ![p] = Pop([loc[p] EXCEPT !.defer = {}, !.msg = NoMsg, !.targets = {}])]
    /\ UNCHANGED <<regVars, globalUseCaseState, logVars, lineCtr, wsVars, ops>>

(* -------------------------- setUsecaseSupported ----------------------- *)
\* ucMu.Lock(); defer ucMu.Unlock()
\* if old, ok := h.globalUseCaseState[name]; ok && old == supported { return }
\* h.globalUseCaseState[name] = supported
setUsecaseSupported(p) ==
    /\ CanStart(p)
    /\ mu["ucMu"] = Free
    /\ \E name \in CoreUseCases, supported \in BOOLEAN :
        LET l == [NoLocals EXCEPT !.op = "setUsecaseSupported", !.name = name,
                                  !.val = supported]
        IN IF name \in DOMAIN globalUseCaseState /\ globalUseCaseState[name] = supported
           THEN /\ loc' = [loc EXCEPT ![p] = [l EXCEPT !.same = TRUE]]
                /\ UNCHANGED <<globalUseCaseState, mu, pc>>
           ELSE /\ globalUseCaseState' = Put(globalUseCaseState, name, supported)
                /\ mu' = [mu EXCEPT !["ucMu"] = p]
                /\ pc' = [pc EXCEPT ![p] = "sus_peers"]
                /\ loc' = [loc EXCEPT ![p] = [l EXCEPT !.gchanged = TRUE]]
    /\ ops' = ops + 1
    /\ UNCHANGED <<regVars, logVars, lineCtr, wsVars>>

\* h.peersMu.Lock(); for _, peer := range h.peers { peer.usecaseState[name] = supported }
\* h.peersMu.Unlock()
setUsecaseSupported_Peers(p) ==
    /\ pc[p] = "sus_peers"
    /\ mu["peersMu"] = Free
    /\ heap' = [i \in DOMAIN heap |->
                   IF \E k \in DOMAIN peers : peers[k] = i
                   THEN [heap[i] EXCEPT !.usecaseState = Put(@, loc[p].name, loc[p].val)]
                   ELSE heap[i]]
    /\ pc' = [pc EXCEPT ![p] = "sus_ws"]
    /\ UNCHANGED <<peers, removed, globalUseCaseState, logVars, lineCtr, wsVars, mu, loc, ops>>

\* h.wsMu.Lock(); defer h.wsMu.Unlock()
setUsecaseSupported_Ws(p) ==
    /\ pc[p] = "sus_ws"
    /\ mu["wsMu"] = Free
    /\ mu' = [mu EXCEPT !["wsMu"] = p]
    /\ pc' = [pc EXCEPT ![p] = "sus_range"]
    /\ UNCHANGED <<regVars, globalUseCaseState, logVars, lineCtr, wsVars, loc, ops>>

\* for ski := range h.peers { msg := ...; for c := range h.wsConns { ... } }
\* h.peers is read here without peersMu; the loop visits the keys present
\* when it reaches them
setUsecaseSupported_Range(p) ==
    /\ pc[p] = "sus_range"
    /\ LET l == loc[p]
           todo == (DOMAIN peers) \ l.visited
       IN IF todo # {}
          THEN /\ \E ski \in todo :
                    loc' = [loc EXCEPT ![p] =
                               [l EXCEPT !.visited = @ \cup {ski},
                                         !.msg = UsecaseMsg(l.name, l.val, ski),
                                         !.pending = wsConns,
                                         !.targets = wsConns,
                                         !.sent = Append(@, UsecaseMsg(l.name, l.val, ski)),
                                         !.stack = <<"sus_range">> \o @]]
               /\ pc' = [pc EXCEPT ![p] = "bc_loop"]
               /\ UNCHANGED mu
          ELSE /\ mu' = Release({"wsMu", "ucMu"})
               /\ pc' = [pc EXCEPT ![p] = "idle"]
               /\ loc' = [loc EXCEPT ![p] = [l EXCEPT !.visited = {}]]
    /\ UNCHANGED <<regVars, globalUseCaseState, logVars, lineCtr, wsVars, ops>>

(* ----------------------- setUsecaseSupportedForPeer ------------------- *)
\* setUsecaseSupportedForPeer writing the flag into every record of h.peers
setUsecaseSupportedForPeer_Set_AllPeers(p) ==
    /\ pc[p] = "sufp_set"
    /\ LET l == loc[p] IN
       IF l.peer = Nil
       THEN /\ pc' = [pc EXCEPT ![p] = Continue(l)]
            /\ loc' = [loc EXCEPT ![p] = Pop(l)]
            /\ UNCHANGED heap
       ELSE /\ heap' = [i \in DOMAIN heap |->
                          [heap[i] EXCEPT !.usecaseState = Put(@, l.name, l.val)]]
            /\ loc' = [loc EXCEPT ![p].same =
                          /\ l.name \in DOMAIN heap[l.peer].usecaseState
                          /\ heap[l.peer].usecaseState[l.name] = l.val]
            /\ pc' = [pc EXCEPT ![p] = "sufp_global"]
    /\ UNCHANGED <<peers, removed, globalUseCaseState, logVars, lineCtr, wsVars, mu, ops>>

\* if peer == nil { return }; peer.usecaseState[name] = supported   (no lock held)
setUsecaseSupportedForPeer_Set(p) ==
    /\ pc[p] = "sufp_set"
    /\ LET l == loc[p] IN
       IF l.peer = Nil
       THEN /\ pc' = [pc EXCEPT ![p] = Continue(l)]
            /\ loc' = [loc EXCEPT ![p] = Pop(l)]
            /\ UNCHANGED heap
       ELSE /\ heap' = [heap EXCEPT ![l.peer].usecaseState = Put(@, l.name, l.val)]
            /\ loc' = [loc EXCEPT ![p].same =
                          /\ l.name \in DOMAIN heap[l.peer].usecaseState
                          /\ heap[l.peer].usecaseState[l.name] = l.val]
            /\ pc' = [pc EXCEPT ![p] = "sufp_global"]
    /\ UNCHANGED <<peers, removed, globalUseCaseState, logVars, lineCtr, wsVars, mu, ops>>

\* ucMu.Lock(); h.globalUseCaseState[name] = supported; ucMu.Unlock()
\* msg := {"type": "usecase", "name": name, "supported": supported, "ski": peer.ski}
setUsecaseSupportedForPeer_Global(p) ==
    /\ pc[p] = "sufp_global"
    /\ mu["ucMu"] = Free
    /\ globalUseCaseState' = Put(globalUseCaseState, loc[p].name, loc[p].val)
    /\ loc' = [loc EXCEPT ![p].msg = UsecaseMsg(loc[p].name, loc[p].val, heap[loc[p].peer].ski),
                          ![p].defer = {"wsMu"},
                          ![p].gchanged =
                              \/ @
                              \/ loc[p].name \notin DOMAIN globalUseCaseState
                              \/ globalUseCaseState[loc[p].name] # loc[p].val]
    /\ pc' = [pc EXCEPT ![p] = "bc_lock"]
    /\ UNCHANGED <<regVars, logVars, lineCtr, wsVars, mu, ops>>

(* ------------------------ updateEntitiesFromDevice -------------------- *)
\* if peer == nil || device == nil { return }, returning also after a failed accessor
\* peer.entities = device.Entities(); b := json.Marshal(msg); peer.lastEntitiesJSON = b
updateEntitiesFromDevice_SkipOnError(p) ==
    /\ pc[p] = "uefd"
    /\ LET l == loc[p] IN
       IF l.peer = Nil \/ ~l.dev \/ l.err
       THEN /\ pc' = [pc EXCEPT ![p] = Continue(l)]
            /\ loc' = [loc EXCEPT ![p] = Pop(l)]
            /\ UNCHANGED heap
       ELSE /\ heap' = [heap EXCEPT ![l.peer].entities = "entities",
                                    ![l.peer].lastEntitiesJSON = EntitiesMsg(l.ski, "entities")]
            /\ loc' = [loc EXCEPT ![p].msg = EntitiesMsg(l.ski, "entities"),
                                  ![p].defer = {"wsMu"}]
            /\ pc' = [pc EXCEPT ![p] = "bc_lock"]
    /\ UNCHANGED <<peers, removed, globalUseCaseState, logVars, lineCtr, wsVars, mu, ops>>

\* if peer == nil || device == nil { return }
\* peer.entities = device.Entities(); b := json.Marshal(msg); peer.lastEntitiesJSON = b
updateEntitiesFromDevice(p) ==
    /\ pc[p] = "uefd"
    /\ LET l == loc[p] IN
       IF l.peer = Nil \/ ~l.dev
       THEN /\ pc' = [pc EXCEPT ![p] = Continue(l)]
            /\ loc' = [loc EXCEPT ![p] = Pop(l)]
            /\ UNCHANGED heap
       ELSE /\ heap' = [heap EXCEPT ![l.peer].entities = "entities",
                                    ![l.peer].lastEntitiesJSON = EntitiesMsg(l.ski, "entities")]
            /\ loc' = [loc EXCEPT ![p].msg = EntitiesMsg(l.ski, "entities"),
                                  ![p].defer = {"wsMu"}]
            /\ pc' = [pc EXCEPT ![p] = "bc_lock"]
    /\ UNCHANGED <<peers, removed, globalUseCaseState, logVars, lineCtr, wsVars, mu, ops>>

(* --------------------------- broadcastPeerList ------------------------ *)
\* PeerInfo{SKI: ski, Connected: peer.connected, Usecases: copy of peer.usecaseState, ...}
PeerInfo(ski, peer) ==
    [ski |-> ski, connected |-> peer.connected, usecases |-> peer.usecaseState,
     deviceName |-> peer.deviceName]

\* h.peersMu.Lock(); peers := ... for ski, peer := range h.peers {...}; h.peersMu.Unlock()
\* msg := {"type": "peers", "peers": peers}
broadcastPeerList(p) ==
    /\ pc[p] = "bpl"
    /\ mu["peersMu"] = Free
    /\ loc' = [loc EXCEPT ![p].msg =
                  PeersMsg({PeerInfo(k, heap[peers[k]]) : k \in DOMAIN peers}),
                          ![p].defer = {"wsMu"}]
    /\ pc' = [pc EXCEPT ![p] = "bc_lock"]
    /\ UNCHANGED <<regVars, globalUseCaseState, logVars, lineCtr, wsVars, mu, ops>>

(* ------------------------------ appendLog ----------------------------- *)
\* if len(h.logs) >= h.maxLogs { h.logs = h.logs[1:] } with > for >=
DropOldest_OffByOne(ls, max) == IF Len(ls) > max THEN Tail(ls) ELSE ls

\* if len(h.logs) >= h.maxLogs { h.logs = h.logs[1:] }
DropOldest(ls, max) == IF Len(ls) >= max THEN Tail(ls) ELSE ls

\* appendLog that hands the line to the broadcast without having stored it
appendLog_PushUnstored(p) ==
    /\ pc[p] = "al"
    /\ mu["logMu"] = Free
    /\ mu' = [mu EXCEPT !["logMu"] = p]
    /\ loc' = [loc EXCEPT ![p].msg = LogMsg(loc[p].line), ![p].defer = {"logMu", "wsMu"}]
    /\ pc' = [pc EXCEPT ![p] = "bc_lock"]
    /\ UNCHANGED <<regVars, globalUseCaseState, logVars, lineCtr, wsVars, ops>>

\* h.logMu.Lock(); defer h.logMu.Unlock()
\* if h.maxLogs <= 0 { h.maxLogs = 1000 }; drop oldest; h.logs = append(h.logs, line)
appendLog(p) ==
    /\ pc[p] = "al"
    /\ mu["logMu"] = Free
    /\ LET max == IF maxLogs <= 0 THEN DefaultMaxLogs ELSE maxLogs IN
       /\ maxLogs' = max
       /\ logs' = Append(DropOldest(logs, max), loc[p].line)
    /\ appended' = Append(appended, loc[p].line)
    /\ mu' = [mu EXCEPT !["logMu"] = p]
    /\ loc' = [loc EXCEPT ![p].msg = LogMsg(loc[p].line), ![p].defer = {"logMu", "wsMu"}]
    /\ pc' = [pc EXCEPT ![p] = "bc_lock"]
    /\ UNCHANGED <<regVars, globalUseCaseState, lineCtr, wsVars, ops>>

(* ------------------------------- getLogs ------------------------------ *)
\* a slice value a caller holds: a slice of its own, or a view of h.logs
SliceCopy(ls) == [live |-> FALSE, val |-> ls, n |-> Len(appended)]
SliceView == [live |-> TRUE, val |-> <<>>, n |-> Len(appended)]
Lines(r) == IF r.live THEN logs ELSE r.val

\* getLogs returning a view of h.logs
getLogs_View(p) ==
    /\ CanStart(p)
    /\ mu["logMu"] = Free
    /\ loc' = [loc EXCEPT ![p] = [NoLocals EXCEPT !.op = "getLogs", !.copyLogs = SliceView]]
    /\ ops' = ops + 1
    /\ UNCHANGED <<regVars, globalUseCaseState, logVars, lineCtr, wsVars, mu, pc>>

\* h.logMu.Lock(); defer h.logMu.Unlock()
\* copyLogs := make([]string, len(h.logs)); copy(copyLogs, h.logs); return copyLogs
getLogs(p) ==
    /\ CanStart(p)
    /\ mu["logMu"] = Free
    /\ loc' = [loc EXCEPT ![p] = [NoLocals EXCEPT !.op = "getLogs",
                                      !.copyLogs = SliceCopy([i \in 1..Len(logs) |-> logs[i]])]]
    /\ ops' = ops + 1
    /\ UNCHANGED <<regVars, globalUseCaseState, logVars, lineCtr, wsVars, mu, pc>>

(* ------------------------------- loggers ------------------------------ *)
\* a message text, as far as extractSKIFromMessage reads it: the identifiers it
\* contains as substrings and its first 64-character hex word ("" if none)
LogTexts == {[mentions |-> {}, hex |-> NoSki], [mentions |-> {"s1"}, hex |-> "s1"]}

\* for ski := range h.peers { if strings.Contains(msg, ski) { return ski } }
\* then the first 64-character hex word, then ""; the set of possible results
\* (the range order of a Go map is not fixed)
extractSKIFromMessage(text) ==
    IF (DOMAIN peers) \cap text.mentions # {}
    THEN (DOMAIN peers) \cap text.mentions
    ELSE {text.hex}

\* printFormat / print (Info, Infof, Error, Errorf; Trace and Debug build the line
\* the same way): ski := h.extractSKIFromMessage(value) under peersMu, then appendLog
printFormat(p) ==
    /\ CanStart(p)
    /\ mu["peersMu"] = Free
    /\ \E text \in LogTexts : \E tag \in extractSKIFromMessage(text) :
        loc' = [loc EXCEPT ![p] = [NoLocals EXCEPT !.op = "printFormat",
                                      !.line = [id |-> lineCtr + 1, tag |-> tag]]]
    /\ lineCtr' = lineCtr + 1
    /\ pc' = [pc EXCEPT ![p] = "al"]
    /\ ops' = ops + 1
    /\ UNCHANGED <<regVars, globalUseCaseState, logVars, wsVars, mu>>

\* the levels of Trace, Tracef, Debug and Debugf
TraceLevels == {"TRACE", "TRACEF"}
DebugLevels == {"DEBUG", "DEBUGF"}

\* if h.config.Logging.EnableTrace / EnableDebug
StdoutEnabled(log) ==
    IF log.level \in TraceLevels THEN log.enableTrace ELSE log.enableDebug

\* Trace that appends and broadcasts its line only if its level is enabled
Trace_OnlyIfEnabled(p) ==
    /\ CanStart(p)
    /\ mu["peersMu"] = Free
    /\ \E text \in LogTexts, level \in TraceLevels \cup DebugLevels, et \in BOOLEAN, ed \in BOOLEAN :
        \E tag \in extractSKIFromMessage(text) :
            LET log == [NoLog EXCEPT !.level = level, !.enableTrace = et, !.enableDebug = ed] IN
            /\ loc' = [loc EXCEPT ![p] = [NoLocals EXCEPT !.op = "Trace",
                                              !.line = [id |-> lineCtr + 1, tag |-> tag],
                                              !.log = log, !.stack = <<"tr_print">>]]
            /\ pc' = [pc EXCEPT ![p] = IF StdoutEnabled(log) THEN "al" ELSE "tr_print"]
    /\ lineCtr' = lineCtr + 1
    /\ ops' = ops + 1
    /\ UNCHANGED <<regVars, globalUseCaseState, logVars, wsVars, mu>>

\* Trace, Tracef, Debug, Debugf: ski := h.extractSKIFromMessage(value) under
\* peersMu; line := fmt.Sprintf("%s TRACE %s %s", ts, ski, value); h.appendLog(line)
Trace(p) ==
    /\ CanStart(p)
    /\ mu["peersMu"] = Free
    /\ \E text \in LogTexts, level \in TraceLevels \cup DebugLevels, et \in BOOLEAN, ed \in BOOLEAN :
        \E tag \in extractSKIFromMessage(text) :
            loc' = [loc EXCEPT ![p] = [NoLocals EXCEPT !.op = "Trace",
                                          !.line = [id |-> lineCtr + 1, tag |-> tag],
                                          !.log = [NoLog EXCEPT !.level = level,
                                                                !.enableTrace = et,
                                                                !.enableDebug = ed],
                                          !.stack = <<"tr_print">>]]
    /\ pc' = [pc EXCEPT ![p] = "al"]
    /\ lineCtr' = lineCtr + 1
    /\ ops' = ops + 1
    /\ UNCHANGED <<regVars, globalUseCaseState, logVars, wsVars, mu>>

\* run() is between h.myService.SetLogging(h) and h.config, err = loadConfig():
\* no use case is registered and the web interface is not started, so there
\* are no peers and no websocket connections yet
InSetup ==
    /\ heap = <<>>
    /\ wsConns = {}
    /\ \A c \in Conns : pc[c] = "ws_new"

\* Trace, Tracef, Debug or Debugf called by the service during Setup()
Trace_InSetup(p) ==
    /\ CanStart(p)
    /\ InSetup
    /\ mu["peersMu"] = Free
    /\ \E text \in LogTexts, level \in TraceLevels \cup DebugLevels :
        \E tag \in extractSKIFromMessage(text) :
            loc' = [loc EXCEPT ![p] = [NoLocals EXCEPT !.op = "Trace",
                                          !.line = [id |-> lineCtr + 1, tag |-> tag],
                                          !.log = [NoLog EXCEPT !.level = level,
                                                                !.config = "nil"],
                                          !.stack = <<"tr_print">>]]
    /\ pc' = [pc EXCEPT ![p] = "al"]
    /\ lineCtr' = lineCtr + 1
    /\ ops' = ops + 1
    /\ UNCHANGED <<regVars, globalUseCaseState, logVars, wsVars, mu>>

\* if h.config.Logging.EnableTrace { fmt.Printf("%s", line) }: with h.config
\* nil the read is a nil pointer dereference and the goroutine panics
Trace_Stdout(p) ==
    /\ pc[p] = "tr_print"
    /\ IF loc[p].log.config = "nil"
       THEN /\ pc' = [pc EXCEPT ![p] = "panic"]
            /\ UNCHANGED loc
       ELSE /\ loc' = [loc EXCEPT ![p].log.stdout = StdoutEnabled(loc[p].log),
                                  ![p].stack = <<>>]
            /\ pc' = [pc EXCEPT ![p] = "idle"]
    /\ UNCHANGED <<regVars, globalUseCaseState, logVars, lineCtr, wsVars, mu, ops>>

(* ------------------ extractSKIFromMessage, by characters -------------- *)
\* A message is a sequence of characters.  Rep(c, n) is c repeated n times.
Rep(c, n) == [i \in 1..n |-> c]

\* the identifiers "s1" and "s2" written out: 64 hexadecimal characters
SkiChars(ski) == IF ski = "s1" THEN Rep("1", 64) ELSE Rep("2", 64)

\* unicode.IsSpace, as far as the messages here go
WhiteSpace == {" ", "\t", "\n"}

\* (c >= '0' && c <= '9') || (c >= 'a' && c <= 'f') || (c >= 'A' && c <= 'F')
HexChars ==
    {"0", "1", "2", "3", "4", "5", "6", "7", "8", "9",
     "a", "b", "c", "d", "e", "f", "A", "B", "C", "D", "E", "F"}

\* the cutset of strings.Trim(word, "[]():;,.\"")
Delimiters == {"[", "]", "(", ")", ":", ";", ",", ".", "\""}

\* strings.Contains(msg, sub)
Contains(msg, sub) ==
    \E i \in 0..(Len(msg) - Len(sub)) : SubSeq(msg, i + 1, i + Len(sub)) = sub

\* the least element of a non-empty set of positions
First(S) == CHOOSE i \in S : \A j \in S : i <= j

\* strings.Fields(msg) from character i on: skip the white space, take the
\* characters up to the next white space as a word, go on behind it
RECURSIVE FieldsFrom(_, _)
FieldsFrom(msg, i) ==
    LET rest == {j \in i..Len(msg) : msg[j] \notin WhiteSpace} IN
    IF rest = {} THEN <<>>
    ELSE LET from == First(rest)
             stop == First({j \in from..Len(msg) : j = Len(msg) \/ msg[j + 1] \in WhiteSpace})
         IN <<SubSeq(msg, from, stop)>> \o FieldsFrom(msg, stop + 1)

Fields(msg) == FieldsFrom(msg, 1)

\* strings.Trim that only removes leading characters of the cutset
RECURSIVE Trim_LeftOnly(_, _)
Trim_LeftOnly(word, cutset) ==
    IF word # <<>> /\ word[1] \in cutset THEN Trim_LeftOnly(Tail(word), cutset)
    ELSE word

\* strings.Trim(word, cutset): remove leading and trailing characters of the cutset
RECURSIVE Trim(_, _)
Trim(word, cutset) ==
    IF word # <<>> /\ word[1] \in cutset THEN Trim(Tail(word), cutset)
    ELSE IF word # <<>> /\ word[Len(word)] \in cutset
         THEN Trim(SubSeq(word, 1, Len(word) - 1), cutset)
         ELSE word

\* for _, word := range words { word = strings.Trim(word, ...)
\*     if len(word) == 64 { isHex := ...; if isHex { return word } } }; return ""
RECURSIVE FirstHexWord(_)
FirstHexWord(words) ==
    IF words = <<>> THEN <<>>
    ELSE LET word == Trim(Head(words), Delimiters) IN
         IF Len(word) = 64 /\ \A i \in DOMAIN word : word[i] \in HexChars
         THEN word
         ELSE FirstHexWord(Tail(words))

\* the registered identifiers the range loop can return: those contained in msg
KnownIn(msg) == {k \in DOMAIN peers : Contains(msg, SkiChars(k))}

\* the possible results of extractSKIFromMessage(msg) (the range order of a Go
\* map is not fixed)
extractSKI(msg) ==
    IF KnownIn(msg) # {}
    THEN {SkiChars(k) : k \in KnownIn(msg)}
    ELSE {FirstHexWord(Fields(msg))}

\* the words the messages of the calls are built from
Words ==
    {<<>>,
     <<"s", "k", "i", "\t">> \o Rep("0", 32) \o Rep("F", 32),
     Rep("a", 63),
     Rep("a", 65) \o <<"\n">>,
     Rep("a", 63) \o <<"g">>,
     Rep("a", 32) \o <<".">> \o Rep("a", 31),
     <<"[">> \o Rep("b", 64) \o <<"]", ":">>,
     <<"<">> \o Rep("b", 64) \o <<">">>,
     SkiChars("s1"),
     <<"s", "k", "i", ":">> \o SkiChars("s2") \o <<"x">>}

\* a message: one of the words, or two of them with a space between them
Messages == Words \cup {w1 \o <<" ">> \o w2 : w1 \in Words, w2 \in Words}

\* h.peersMu.Lock(); defer h.peersMu.Unlock(); the loops; return
extractSKIFromMessage_Call(p) ==
    /\ CanStart(p)
    /\ mu["peersMu"] = Free
    /\ \E msg \in Messages : \E r \in extractSKI(msg) :
        loc' = [loc EXCEPT ![p] = [NoLocals EXCEPT !.op = "extractSKIFromMessage",
                                      !.x = [msg |-> msg, ski |-> r, known |-> DOMAIN peers]]]
    /\ ops' = ops + 1
    /\ UNCHANGED <<regVars, globalUseCaseState, logVars, lineCtr, wsVars, mu, pc>>

(* --------------------------- encoding failures ------------------------ *)
\* b, err := json.Marshal(msg); if err != nil { h.Errorf("marshal ...: %v", err) ... }
\* The actions below are the err != nil branches; the actions of the sections
\* above are the branches in which the message is encoded.

\* the text of a marshal error: it contains no peer identifier
MarshalErrorText == [mentions |-> {}, hex |-> NoSki]

\* h.Errorf(format, err): printFormat reads h.peers under peersMu
\* (extractSKIFromMessage), builds the line and calls appendLog
Errorf(p) ==
    /\ pc[p] = "errorf"
    /\ mu["peersMu"] = Free
    /\ \E tag \in extractSKIFromMessage(MarshalErrorText) :
        loc' = [loc EXCEPT ![p].line = [id |-> lineCtr + 1, tag |-> tag]]
    /\ lineCtr' = lineCtr + 1
    /\ pc' = [pc EXCEPT ![p] = "al"]
    /\ UNCHANGED <<regVars, globalUseCaseState, logVars, wsVars, mu, ops>>

\* setUsecaseSupported, inside h.wsMu.Lock(); defer h.wsMu.Unlock(); for ski := range h.peers:
\*   b, err := json.Marshal(msg)
\*   if err != nil { h.Errorf("marshal usecase update: %v", err); continue }
setUsecaseSupported_MarshalError(p) ==
    /\ pc[p] = "sus_range"
    /\ LET l == loc[p] IN
       \E ski \in (DOMAIN peers) \ l.visited :
           loc' = [loc EXCEPT ![p] =
                      [l EXCEPT !.visited = @ \cup {ski},
                                !.failed = Append(@, UsecaseMsg(l.name, l.val, ski)),
                                !.stack = <<"sus_range">> \o @]]
    /\ pc' = [pc EXCEPT ![p] = "errorf"]
    /\ UNCHANGED <<regVars, globalUseCaseState, logVars, lineCtr, wsVars, mu, ops>>

\* setUsecaseSupportedForPeer: ucMu.Lock(); h.globalUseCaseState[name] = supported; ucMu.Unlock()
\*   b, err := json.Marshal(msg)
\*   if err != nil { h.Errorf("marshal usecase update: %v", err); return }
setUsecaseSupportedForPeer_MarshalError(p) ==
    /\ pc[p] = "sufp_global"
    /\ mu["ucMu"] = Free
    /\ globalUseCaseState' = Put(globalUseCaseState, loc[p].name, loc[p].val)
    /\ loc' = [loc EXCEPT ![p].failed =
                              Append(@, UsecaseMsg(loc[p].name, loc[p].val, heap[loc[p].peer].ski)),
                          ![p].gchanged =
                              \/ @
                              \/ loc[p].name \notin DOMAIN globalUseCaseState
                              \/ globalUseCaseState[loc[p].name] # loc[p].val]
    /\ pc' = [pc EXCEPT ![p] = "errorf"]
    /\ UNCHANGED <<regVars, logVars, lineCtr, wsVars, mu, ops>>

\* updateEntitiesFromDevice: peer.entities = device.Entities(); ...
\*   b, err := json.Marshal(msg)
\*   if err != nil { h.Errorf("marshal entities: %v", err); return }
updateEntitiesFromDevice_MarshalError(p) ==
    /\ pc[p] = "uefd"
    /\ loc[p].peer # Nil
    /\ loc[p].dev
    /\ heap' = [heap EXCEPT ![loc[p].peer].entities = "entities"]
    /\ loc' = [loc EXCEPT ![p].failed = Append(@, EntitiesMsg(loc[p].ski, "entities"))]
    /\ pc' = [pc EXCEPT ![p] = "errorf"]
    /\ UNCHANGED <<peers, removed, globalUseCaseState, logVars, lineCtr, wsVars, mu, ops>>

\* broadcastPeerList: h.peersMu.Lock(); peers := ...; h.peersMu.Unlock()
\*   b, err := json.Marshal(msg)
\*   if err != nil { h.Errorf("marshal peer list: %v", err); return }
broadcastPeerList_MarshalError(p) ==
    /\ pc[p] = "bpl"
    /\ mu["peersMu"] = Free
    /\ loc' = [loc EXCEPT ![p].failed =
                  Append(@, PeersMsg({PeerInfo(k, heap[peers[k]]) : k \in DOMAIN peers}))]
    /\ pc' = [pc EXCEPT ![p] = "errorf"]
    /\ UNCHANGED <<regVars, globalUseCaseState, logVars, lineCtr, wsVars, mu, ops>>

(* ------------------------- use-case event handlers -------------------- *)
\* entry of a handler: peer := h.getOrCreatePeer(ski).  calls is the number of
\* setUsecaseSupportedForPeer calls the handler makes on UseCaseSupportUpdate.
HandleEvent(p, handler, uc, calls) ==
    /\ CanStart(p)
    /\ \E ski \in SKIs, dev \in BOOLEAN, event \in EventsOf(handler), err \in BOOLEAN,
          v \in DataValues :
        /\ event = SupportUpdate => ~err
        /\ loc' = [loc EXCEPT ![p] =
                      [NoLocals EXCEPT !.op = handler, !.ski = ski, !.name = uc, !.val = TRUE,
                                       !.event = event, !.dev = dev, !.err = err, !.value = v,
                                       !.calls = IF event = SupportUpdate THEN calls ELSE 0,
                                       !.stack = <<"h_dispatch">>]]
    /\ pc' = [pc EXCEPT ![p] = "gocp_lock"]
    /\ ops' = ops + 1
    /\ UNCHANGED <<regVars, globalUseCaseState, logVars, lineCtr, wsVars, mu>>

\* if event == eglpp.UseCaseSupportUpdate { setUsecaseSupportedForPeer(peer, "LPP", true) }
\* switch event { case eglpp.UseCaseSupportUpdate: setUsecaseSupportedForPeer(peer, "LPP", true) ...
HandleEgLPP(p) == HandleEvent(p, "HandleEgLPP", "LPP", 2)
HandleEgLPC(p) == HandleEvent(p, "HandleEgLPC", "LPC", 1)
HandleEgEvcc(p) == HandleEvent(p, "HandleEgEvcc", "EVCC", 1)
HandleEgEvcem(p) == HandleEvent(p, "HandleEgEvcem", "EVCEM", 1)
HandleEgEvsecc(p) == HandleEvent(p, "HandleEgEvsecc", "EVSECC", 1)
HandleEgCevc(p) == HandleEvent(p, "HandleEgCevc", "CEVC", 1)
HandleMaMpc(p) == HandleEvent(p, "HandleMaMpc", "MPC", 1)
HandleMaMGCP(p) == HandleEvent(p, "HandleMaMGCP", "MGCP", 1)
HandleCemOpev(p) == HandleEvent(p, "HandleCemOpev", "OPEV", 1)
HandleCemOscev(p) == HandleEvent(p, "HandleCemOscev", "OSCEV", 1)
HandleCemEvsoc(p) == HandleEvent(p, "HandleCemEvsoc", "EVSOC", 1)

Handlers ==
    {"HandleEgLPP", "HandleEgLPC", "HandleEgEvcc", "HandleEgEvcem", "HandleEgEvsecc",
     "HandleEgCevc", "HandleMaMpc", "HandleMaMGCP", "HandleCemOpev", "HandleCemOscev",
     "HandleCemEvsoc"}

\* the body of a handler after getOrCreatePeer returned:
\*   case UseCaseSupportUpdate: h.setUsecaseSupportedForPeer(peer, NAME, true)
\*   case DataUpdate...: v, err := accessor(entity)
\*                       if err != nil { fmt.Println(...) } else { peer.usecaseData.X = v }
\*   case cemcevc.DataUpdateEnergyDemand: as above for CevcEnergyDemand, and after the
\*                       if/else: peer.usecaseData.CevcChargeStrategy = string(ChargeStrategy(entity))
\*   h.updateEntitiesFromDevice(ski, device, peer)
Handle_Dispatch(p) ==
    /\ pc[p] = "h_dispatch"
    /\ LET l == loc[p]
           st == heap[l.peer].usecaseState
           pre == IF l.pre # "unknown" THEN l.pre
                  ELSE IF l.name \in DOMAIN st /\ st[l.name] THEN "supported"
                  ELSE "unsupported"
       IN IF l.calls > 0
          THEN /\ loc' = [loc EXCEPT ![p] = [l EXCEPT !.calls = @ - 1, !.pre = pre,
                                                       !.stack = <<"h_dispatch">> \o @]]
               /\ pc' = [pc EXCEPT ![p] = "sufp_set"]
               /\ UNCHANGED heap
          ELSE /\ \E strategy \in DataValues :
                    LET stored == IF l.event # SupportUpdate /\ ~l.err
                                  THEN [heap EXCEPT ![l.peer].usecaseData[l.name] = l.value]
                                  ELSE heap
                    IN heap' = IF l.event = DataUpdateEnergyDemand
                               THEN [stored EXCEPT
                                       ![l.peer].usecaseData["CevcChargeStrategy"] = strategy]
                               ELSE stored
               /\ loc' = [loc EXCEPT ![p].pre = pre]
               /\ pc' = [pc EXCEPT ![p] = "uefd"]
    /\ UNCHANGED <<peers, removed, globalUseCaseState, logVars, lineCtr, wsVars, mu, ops>>

(* --------------------------- connection events ------------------------ *)
\* peer := h.getOrCreatePeer(ski)
RemoteSKIConnected(p) ==
    /\ CanStart(p)
    /\ \E ski \in SKIs :
        loc' = [loc EXCEPT ![p] = [NoLocals EXCEPT !.op = "RemoteSKIConnected", !.ski = ski,
                                                   !.stack = <<"rc_set">>]]
    /\ pc' = [pc EXCEPT ![p] = "gocp_lock"]
    /\ ops' = ops + 1
    /\ UNCHANGED <<regVars, globalUseCaseState, logVars, lineCtr, wsVars, mu>>

\* peer.connected = true; peer.lastSeen = time.Now(); h.broadcastPeerList()
RemoteSKIConnected_Set(p) ==
    /\ pc[p] = "rc_set"
    /\ heap' = [heap EXCEPT ![loc[p].peer].connected = TRUE]
    /\ pc' = [pc EXCEPT ![p] = "bpl"]
    /\ UNCHANGED <<peers, removed, globalUseCaseState, logVars, lineCtr, wsVars, mu, loc, ops>>

\* getPeer: h.peersMu.Lock(); peer, exists := h.peers[ski]; h.peersMu.Unlock()
getPeer(ski) == IF ski \in DOMAIN peers THEN peers[ski] ELSE Nil

\* the disconnect, broadcasting the peer list for an identifier without a record
RemoteSKIDisconnected_AlwaysBroadcast(p) ==
    /\ CanStart(p)
    /\ mu["peersMu"] = Free
    /\ \E ski \in SKIs :
        /\ loc' = [loc EXCEPT ![p] = [NoLocals EXCEPT !.op = "RemoteSKIDisconnected",
                                                      !.ski = ski, !.peer = getPeer(ski)]]
        /\ pc' = [pc EXCEPT ![p] = IF getPeer(ski) = Nil THEN "bpl" ELSE "rd_set"]
    /\ ops' = ops + 1
    /\ UNCHANGED <<regVars, globalUseCaseState, logVars, lineCtr, wsVars, mu>>

\* peer := h.getPeer(ski); if peer != nil { ... }
RemoteSKIDisconnected(p) ==
    /\ CanStart(p)
    /\ mu["peersMu"] = Free
    /\ \E ski \in SKIs :
        /\ loc' = [loc EXCEPT ![p] = [NoLocals EXCEPT !.op = "RemoteSKIDisconnected",
                                                      !.ski = ski, !.peer = getPeer(ski)]]
        /\ pc' = [pc EXCEPT ![p] = IF getPeer(ski) = Nil THEN "idle" ELSE "rd_set"]
    /\ ops' = ops + 1
    /\ UNCHANGED <<regVars, globalUseCaseState, logVars, lineCtr, wsVars, mu>>

\* the disconnect, with the record deleted from h.peers
RemoteSKIDisconnected_Set_Remove(p) ==
    /\ pc[p] = "rd_set"
    /\ heap' = [heap EXCEPT ![loc[p].peer].connected = FALSE]
    /\ peers' = Del(peers, loc[p].ski)
    /\ pc' = [pc EXCEPT ![p] = "bpl"]
    /\ UNCHANGED <<removed, globalUseCaseState, logVars, lineCtr, wsVars, mu, loc, ops>>

\* peer.connected = false; h.broadcastPeerList()
RemoteSKIDisconnected_Set(p) ==
    /\ pc[p] = "rd_set"
    /\ heap' = [heap EXCEPT ![loc[p].peer].connected = FALSE]
    /\ pc' = [pc EXCEPT ![p] = "bpl"]
    /\ UNCHANGED <<peers, removed, globalUseCaseState, logVars, lineCtr, wsVars, mu, loc, ops>>

\* the entries of a discovery update (their SKIs)
VisibleEntries == {<<"s1">>, <<"s2">>, <<"s1", "s2">>}

\* for _, entry := range entries { peer := h.getOrCreatePeer(entry.Ski) ...
VisibleRemoteServicesUpdated(p) ==
    /\ CanStart(p)
    /\ \E es \in VisibleEntries :
        loc' = [loc EXCEPT ![p] = [NoLocals EXCEPT !.op = "VisibleRemoteServicesUpdated",
                                      !.ski = Head(es), !.entries = Tail(es),
                                      !.stack = <<"v_set">>]]
    /\ pc' = [pc EXCEPT ![p] = "gocp_lock"]
    /\ ops' = ops + 1
    /\ UNCHANGED <<regVars, globalUseCaseState, logVars, lineCtr, wsVars, mu>>

\* peer.deviceName = entry.Name ... peer.connected = false; next entry, or
\* h.broadcastPeerList() after the last one
VisibleRemoteServicesUpdated_Set(p) ==
    /\ pc[p] = "v_set"
    /\ LET l == loc[p] IN
       /\ heap' = [heap EXCEPT ![l.peer].deviceName = "discovered",
                                ![l.peer].connected = FALSE]
       /\ IF l.entries = <<>>
          THEN /\ pc' = [pc EXCEPT ![p] = "bpl"]
               /\ UNCHANGED loc
          ELSE /\ pc' = [pc EXCEPT ![p] = "gocp_lock"]
               /\ loc' = [loc EXCEPT ![p] = [l EXCEPT !.ski = Head(l.entries),
                                                      !.peer = Nil,
                                                      !.entries = Tail(l.entries),
                                                      !.stack = <<"v_set">> \o @]]
    /\ UNCHANGED <<peers, removed, globalUseCaseState, logVars, lineCtr, wsVars, mu, ops>>

(* --------------------------- write commands --------------------------- *)
\* the commands whose Write function returns an error
LimitCmds ==
    {"writeLPCConsumptionLimit", "writeLPPProductionLimit",
     "writeOSCEVLoadControlLimits", "writeOPEVLoadControlLimits"}

\* the commands whose Write function returns nothing
FailsafeCmds ==
    {"writeLPCFailsafeDuration", "writeLPCFailsafeValue",
     "writeLPPFailsafeDuration", "writeLPPFailsafeValue"}

\* the commands that answer 400 when the payload has no numeric value
ValueCmds == {"writeOSCEVLoadControlLimits", "writeOPEVLoadControlLimits"}

WriteCmds == LimitCmds \cup FailsafeCmds

\* the cmd strings a payload may carry
PayloadCmds == WriteCmds \cup {"other"}

\* the remote entities of the two peers, in the order RemoteEntitiesScenarios
\* lists them
RemoteEntities ==
    <<[name |-> "e1", ski |-> "s1"], [name |-> "e2", ski |-> "s2"],
      [name |-> "e3", ski |-> "s1"]>>

\* the entities of the peers that are connected
ConnectedEntities ==
    {i \in DOMAIN RemoteEntities :
        \E k \in DOMAIN peers :
            k = RemoteEntities[i].ski /\ heap[peers[k]].connected}

\* the entities at the indices in S, in their order
RECURSIVE ListOf(_, _)
ListOf(S, i) ==
    IF i > Len(RemoteEntities) THEN <<>>
    ELSE (IF i \in S THEN <<RemoteEntities[i]>> ELSE <<>>) \o ListOf(S, i + 1)

\* what RemoteEntitiesScenarios of a use case can return: entities of
\* connected peers that support the use case
RemoteEntitiesScenarios == {ListOf(S, 1) : S \in SUBSET ConnectedEntities}

\* fmt.Sprintf("%v: %v", entity, err)
ErrStr(entity, err) == <<entity.name, ": ", err>>

\* strings.Join(errs, sep)
RECURSIVE Join(_, _)
Join(ss, sep) ==
    IF ss = <<>> THEN <<>>
    ELSE IF Len(ss) = 1 THEN ss[1]
    ELSE ss[1] \o <<sep>> \o Join(Tail(ss), sep)

\* fmt.Errorf("errors: %s", strings.Join(errs, "; "))
CombinedError(errs) == <<"errors: ">> \o Join(errs, "; ")

\* cmd, _ := payload["cmd"].(string); switch cmd { ... }
\* up to entities := h.uc.RemoteEntitiesScenarios() in the Write function
apiWrite(p) ==
    /\ CanStart(p)
    /\ \E cmd \in PayloadCmds, ski \in SKIs, valueOk \in BOOLEAN,
          entities \in RemoteEntitiesScenarios :
        LET w == [NoWrite EXCEPT !.cmd = cmd, !.ski = ski, !.valueOk = valueOk] IN
        IF cmd \notin WriteCmds
        THEN /\ loc' = [loc EXCEPT ![p] = [NoLocals EXCEPT !.op = "apiWrite",
                             !.w = [w EXCEPT !.status = "400", !.body = <<"unknown command">>]]]
             /\ pc' = pc
        ELSE IF cmd \in ValueCmds /\ ~valueOk
        THEN /\ loc' = [loc EXCEPT ![p] = [NoLocals EXCEPT !.op = "apiWrite",
                             !.w = [w EXCEPT !.status = "400", !.body = <<"value must be a number">>]]]
             /\ pc' = pc
        ELSE /\ loc' = [loc EXCEPT ![p] = [NoLocals EXCEPT !.op = "apiWrite",
                             !.w = [w EXCEPT !.entities = entities, !.todo = entities]]]
             /\ pc' = [pc EXCEPT ![p] = "w_loop"]
    /\ ops' = ops + 1
    /\ UNCHANGED <<regVars, globalUseCaseState, logVars, lineCtr, wsVars, mu>>

\* one iteration of the loop, leaving the loop at the first error
Write_Entity_StopOnError(p) ==
    /\ pc[p] = "w_loop"
    /\ loc[p].w.todo # <<>>
    /\ \E err \in WriteErrs \cup {NoErr} :
        LET w == loc[p].w
            entity == Head(w.todo) IN
        loc' = [loc EXCEPT ![p].w =
                   [w EXCEPT !.todo = IF err # NoErr THEN <<>> ELSE Tail(w.todo),
                             !.tried = Append(w.tried, entity),
                             !.results = Append(w.results, err),
                             !.errs = IF err # NoErr /\ w.cmd \in LimitCmds
                                      THEN Append(w.errs, ErrStr(entity, err))
                                      ELSE w.errs]]
    /\ UNCHANGED <<regVars, globalUseCaseState, logVars, lineCtr, wsVars, mu, pc, ops>>

\* for _, entity := range entities { _, err := h.uc.Write...(entity.Entity, ...)
\*     if err != nil { errs = append(errs, fmt.Sprintf("%v: %v", entity, err)) } }
\* (the failsafe functions only print the error)
Write_Entity(p) ==
    /\ pc[p] = "w_loop"
    /\ loc[p].w.todo # <<>>
    /\ \E err \in WriteErrs \cup {NoErr} :
        LET w == loc[p].w
            entity == Head(w.todo) IN
        loc' = [loc EXCEPT ![p].w =
                   [w EXCEPT !.todo = Tail(w.todo),
                             !.tried = Append(w.tried, entity),
                             !.results = Append(w.results, err),
                             !.errs = IF err # NoErr /\ w.cmd \in LimitCmds
                                      THEN Append(w.errs, ErrStr(entity, err))
                                      ELSE w.errs]]
    /\ UNCHANGED <<regVars, globalUseCaseState, logVars, lineCtr, wsVars, mu, pc, ops>>

\* if len(errs) > 0 { return fmt.Errorf(...) }; return nil
\* and in the handler: if err != nil { 500, err.Error() } else "ok";
\* after a failsafe function always "ok"
Write_Return(p) ==
    /\ pc[p] = "w_loop"
    /\ loc[p].w.todo = <<>>
    /\ LET w == loc[p].w
           ret == IF w.cmd \in LimitCmds /\ Len(w.errs) > 0
                  THEN CombinedError(w.errs) ELSE <<>> IN
       loc' = [loc EXCEPT ![p].w =
                  [w EXCEPT !.ret = ret,
                            !.status = IF ret # <<>> THEN "500" ELSE "200",
                            !.body = IF ret # <<>> THEN ret ELSE <<"ok">>]]
    /\ pc' = [pc EXCEPT ![p] = "idle"]
    /\ UNCHANGED <<regVars, globalUseCaseState, logVars, lineCtr, wsVars, mu, ops>>

(* --------------------------- polling handlers ------------------------- *)
PollEndpoints == {"/api/peers", "/api/usecasedata", "/api/entities", "/api/logs", "/api/usecases"}

\* the lock a polling handler takes to read
PollLock(endpoint) ==
    CASE endpoint = "/api/logs" -> "logMu"
      [] endpoint = "/api/usecases" -> "ucMu"
      [] OTHER -> "peersMu"

\* the connected peers: for _, peer := range h.peers { if peer.connected {
ConnectedPeers == {k \in DOMAIN peers : heap[peers[k]].connected}

\* the answers a handler can give: status and body
PollAnswers(endpoint, ski) ==
    CASE endpoint = "/api/peers" ->
            {[status |-> "200",
              body |-> [NoBody EXCEPT !.peers = {PeerInfo(k, heap[peers[k]]) : k \in DOMAIN peers}]]}
      [] endpoint = "/api/logs" -> {[status |-> "200", body |-> [NoBody EXCEPT !.logs = logs]]}
      [] endpoint = "/api/usecases" ->
            {[status |-> "200", body |-> [NoBody EXCEPT !.usecases = globalUseCaseState]]}
      [] endpoint = "/api/entities" ->
            IF ski = NoSki
            THEN {[status |-> "400", body |-> [NoBody EXCEPT !.text = "ski parameter required"]]}
            ELSE IF getPeer(ski) = Nil \/ heap[getPeer(ski)].lastEntitiesJSON = "nil"
                 THEN {[status |-> "200", body |-> [NoBody EXCEPT !.text = "[]"]]}
                 ELSE {[status |-> "200",
                        body |-> [NoBody EXCEPT !.text = heap[getPeer(ski)].lastEntitiesJSON]]}
      [] OTHER ->
            IF ski = NoSki
            THEN IF ConnectedPeers = {}
                 THEN {[status |-> "200", body |-> NoBody]}
                 ELSE {[status |-> "200",
                        body |-> [NoBody EXCEPT !.data = heap[peers[k]].usecaseData]] :
                          k \in ConnectedPeers}
            ELSE IF getPeer(ski) = Nil
                 THEN {[status |-> "404", body |-> [NoBody EXCEPT !.text = "peer not found"]]}
                 ELSE {[status |-> "200",
                        body |-> [NoBody EXCEPT !.data = heap[getPeer(ski)].usecaseData]]}

\* the handler calls h.Errorf when json.NewEncoder(w).Encode returns an error
\* (the handlers of /api/entities and the 400 and 404 answers do not check it)
PollLogsError(endpoint, ski, encodeErr) ==
    /\ encodeErr
    /\ endpoint # "/api/entities"
    /\ endpoint = "/api/usecasedata" /\ ski # NoSki => getPeer(ski) # Nil

\* the locks the handler holds while it calls h.Errorf: /api/usecases has
\* deferred ucMu.Unlock(); /api/usecasedata without ski encodes the first
\* connected peer's data before h.peersMu.Unlock()
PollHolds(endpoint, ski) ==
    IF endpoint = "/api/usecases" THEN {"ucMu"}
    ELSE IF endpoint = "/api/usecasedata" /\ ski = NoSki /\ ConnectedPeers # {} THEN {"peersMu"}
    ELSE {}

\* the handler's effect on its locals, its position and the locks
PollRequest(p, endpoint, ski, encodeErr) ==
    /\ mu[PollLock(endpoint)] = Free
    /\ \E a \in PollAnswers(endpoint, ski) :
        loc' = [loc EXCEPT ![p] = [NoLocals EXCEPT !.op = "apiPoll",
                   !.poll = [endpoint |-> endpoint, ski |-> ski, encodeErr |-> encodeErr,
                             status |-> a.status, body |-> a.body],
                   !.stack = <<"poll_end">>]]
    /\ IF PollLogsError(endpoint, ski, encodeErr)
       THEN /\ pc' = [pc EXCEPT ![p] = "poll_errorf"]
            /\ mu' = [m \in Mutexes |-> IF m \in PollHolds(endpoint, ski) THEN p ELSE mu[m]]
       ELSE /\ pc' = pc
            /\ mu' = mu

\* a polling handler whose lookup creates the record it does not find
apiPoll_Creating(p) ==
    /\ CanStart(p)
    /\ \E endpoint \in PollEndpoints, ski \in SKIs \cup {NoSki}, encodeErr \in BOOLEAN :
        /\ PollRequest(p, endpoint, ski, encodeErr)
        /\ IF ski # NoSki /\ ski \notin DOMAIN peers /\ PollLock(endpoint) = "peersMu"
           THEN /\ heap' = Append(heap, NewPeerData(ski))
                /\ peers' = Put(peers, ski, Len(heap) + 1)
           ELSE UNCHANGED <<peers, heap>>
    /\ ops' = ops + 1
    /\ UNCHANGED <<removed, globalUseCaseState, logVars, lineCtr, wsVars>>

\* /api/peers, /api/usecasedata, /api/entities, /api/logs, /api/usecases: read
\* under the handler's lock and write the response
apiPoll(p) ==
    /\ CanStart(p)
    /\ \E endpoint \in PollEndpoints, ski \in SKIs \cup {NoSki}, encodeErr \in BOOLEAN :
        PollRequest(p, endpoint, ski, encodeErr)
    /\ ops' = ops + 1
    /\ UNCHANGED <<regVars, globalUseCaseState, logVars, lineCtr, wsVars>>

\* h.Errorf("encode ...: %v", err): printFormat reads h.peers under peersMu
\* (extractSKIFromMessage) and calls appendLog
apiPoll_Errorf(p) ==
    /\ pc[p] = "poll_errorf"
    /\ mu["peersMu"] = Free
    /\ loc' = [loc EXCEPT ![p].line = [id |-> lineCtr + 1, tag |-> NoSki]]
    /\ lineCtr' = lineCtr + 1
    /\ pc' = [pc EXCEPT ![p] = "al"]
    /\ UNCHANGED <<regVars, globalUseCaseState, logVars, wsVars, mu, ops>>

\* the handler returns; its deferred ucMu.Unlock() or its h.peersMu.Unlock() runs
apiPoll_Return(p) ==
    /\ pc[p] = "poll_end"
    /\ mu' = [m \in Mutexes |-> IF mu[m] = p THEN Free ELSE mu[m]]
    /\ loc' = [loc EXCEPT ![p].stack = <<>>]
    /\ pc' = [pc EXCEPT ![p] = "idle"]
    /\ UNCHANGED <<regVars, globalUseCaseState, logVars, lineCtr, wsVars, ops>>

(* --------------------------- /ws/logs handler ------------------------- *)
\* The handler goroutine of connection c is process c.

\* c, err := upgrader.Upgrade(w, r, nil)
\* h.wsMu.Lock(); h.wsConns[c] = struct{}{}; h.wsMu.Unlock()
ws_Attach(c) ==
    /\ pc[c] = "ws_new"
    /\ mu["wsMu"] = Free
    /\ wsConns' = wsConns \cup {c}
    /\ loc' = [loc EXCEPT ![c].op = "ws"]
    /\ pc' = [pc EXCEPT ![c] = "ws_getlogs"]
    /\ UNCHANGED <<regVars, globalUseCaseState, logVars, lineCtr, health, received, pushes,
                   evicted, mu, ops>>

\* logs := h.getLogs(): a copy of h.logs taken under logMu
ws_GetLogs(c) ==
    /\ pc[c] = "ws_getlogs"
    /\ mu["logMu"] = Free
    /\ loc' = [loc EXCEPT ![c].snap = logs]
    /\ pc' = [pc EXCEPT ![c] = IF logs = <<>> THEN "ws_sendstate" ELSE "ws_sendlogs"]
    /\ UNCHANGED <<regVars, globalUseCaseState, logVars, lineCtr, wsVars, mu, ops>>

\* for _, line := range logs { if err := c.WriteMessage(..., line); err != nil { break } }
\* (written by the handler itself, without wsMu)
ws_SendLog(c) ==
    /\ pc[c] = "ws_sendlogs"
    /\ health[c] # "stalled"
    /\ LET l == loc[c] IN
       IF health[c] = "ok"
       THEN /\ received' = [received EXCEPT ![c] = Append(@, [m |-> LogMsg(Head(l.snap)), by |-> c])]
            /\ loc' = [loc EXCEPT ![c].snap = Tail(@)]
            /\ pc' = [pc EXCEPT ![c] = IF Tail(l.snap) = <<>> THEN "ws_sendstate" ELSE "ws_sendlogs"]
       ELSE /\ loc' = [loc EXCEPT ![c].snap = <<>>]
            /\ pc' = [pc EXCEPT ![c] = "ws_sendstate"]
            /\ UNCHANGED received
    /\ UNCHANGED <<regVars, globalUseCaseState, logVars, lineCtr, wsConns, health, pushes,
                   evicted, mu, ops>>

\* the order in which the snapshot sends the entries of globalUseCaseState (Go
\* leaves the range order of a map open; the model fixes one order)
NameOrder ==
    <<"CEVC", "EVCC", "EVCEM", "EVCS", "EVSECC", "EVSOC", "LPC", "LPP", "MGCP", "MPC", "OPEV",
      "OSCEV">>

\* the snapshot leaving out the use cases that are not supported
RECURSIVE SnapshotMsgs_SupportedOnly(_)
SnapshotMsgs_SupportedOnly(names) ==
    IF names = <<>> THEN <<>>
    ELSE IF Head(names) \in DOMAIN globalUseCaseState /\ globalUseCaseState[Head(names)]
         THEN <<UsecaseSnapshotMsg(Head(names), globalUseCaseState[Head(names)])>>
                  \o SnapshotMsgs_SupportedOnly(Tail(names))
         ELSE SnapshotMsgs_SupportedOnly(Tail(names))

RECURSIVE SnapshotMsgs(_)
SnapshotMsgs(names) ==
    IF names = <<>> THEN <<>>
    ELSE IF Head(names) \in DOMAIN globalUseCaseState
         THEN <<UsecaseSnapshotMsg(Head(names), globalUseCaseState[Head(names)])>>
                  \o SnapshotMsgs(Tail(names))
         ELSE SnapshotMsgs(Tail(names))

\* ucMu.Lock(); for name, supported := range h.globalUseCaseState {
\*     _ = c.WriteMessage(..., {"type": "usecase", "name": name, "supported": supported}) }
\* ucMu.Unlock(); h.broadcastPeerList()
ws_SendState(c) ==
    /\ pc[c] = "ws_sendstate"
    /\ mu["ucMu"] = Free
    /\ health[c] # "stalled"
    /\ received' = IF health[c] = "ok"
                   THEN [received EXCEPT ![c] =
                            @ \o [i \in 1..Len(SnapshotMsgs(NameOrder)) |->
                                     [m |-> SnapshotMsgs(NameOrder)[i], by |-> c]]]
                   ELSE received
    /\ loc' = [loc EXCEPT ![c].stack = <<"ws_read">>]
    /\ pc' = [pc EXCEPT ![c] = "bpl"]
    /\ UNCHANGED <<regVars, globalUseCaseState, logVars, lineCtr, wsConns, health, pushes,
                   evicted, mu, ops>>

\* for { if _, _, err := c.ReadMessage(); err != nil {
\*     c.Close(); h.wsMu.Lock(); delete(h.wsConns, c); h.wsMu.Unlock(); return } }
ws_Detach(c) ==
    /\ pc[c] = "ws_read"
    /\ health[c] = "broken"
    /\ mu["wsMu"] = Free
    /\ wsConns' = wsConns \ {c}
    /\ pc' = [pc EXCEPT ![c] = "ws_closed"]
    /\ UNCHANGED <<regVars, globalUseCaseState, logVars, lineCtr, health, received, pushes,
                   evicted, mu, loc, ops>>

(* ----------------------------- environment ---------------------------- *)
\* the client closes the connection or the network fails: from now on writes
\* to it and reads from it return an error
ConnBreak(c) ==
    /\ pc[c] # "ws_new"
    /\ health[c] \in {"ok", "stalled"}
    /\ health' = [health EXCEPT ![c] = "broken"]
    /\ UNCHANGED <<regVars, globalUseCaseState, logVars, lineCtr, wsConns, received, pushes,
                   evicted, mu, pc, loc, ops>>

\* the client stops reading: writes to the connection no longer return
ConnStall(c) ==
    /\ pc[c] # "ws_new"
    /\ health[c] = "ok"
    /\ health' = [health EXCEPT ![c] = "stalled"]
    /\ UNCHANGED <<regVars, globalUseCaseState, logVars, lineCtr, wsConns, received, pushes,
                   evicted, mu, pc, loc, ops>>

(* --------------------------- specifications --------------------------- *)
\* steps taken inside an operation, by any goroutine
Step(p) ==
    \/ getOrCreatePeer_Lock(p)
    \/ getOrCreatePeer_Find(p)
    \/ getOrCreatePeer_New(p)
    \/ getOrCreatePeer_Seed(p)
    \/ apiPoll_Errorf(p)
    \/ apiPoll_Return(p)
    \/ Trace_Stdout(p)
    \/ Errorf(p)
    \/ setUsecaseSupported_MarshalError(p)
    \/ setUsecaseSupportedForPeer_MarshalError(p)
    \/ updateEntitiesFromDevice_MarshalError(p)
    \/ broadcastPeerList_MarshalError(p)
    \/ Write_Entity(p)
    \/ Write_Return(p)
    \/ Handle_Dispatch(p)
    \/ setUsecaseSupportedForPeer_Set(p)
    \/ setUsecaseSupportedForPeer_Global(p)
    \/ updateEntitiesFromDevice(p)
    \/ broadcastPeerList(p)
    \/ broadcast_Lock(p)
    \/ broadcast_Write(p)
    \/ broadcast_Block(p)
    \/ broadcast_Unblock(p)
    \/ broadcast_End(p)
    \/ setUsecaseSupported_Peers(p)
    \/ setUsecaseSupported_Ws(p)
    \/ setUsecaseSupported_Range(p)
    \/ appendLog(p)
    \/ RemoteSKIConnected_Set(p)
    \/ RemoteSKIDisconnected_Set(p)
    \/ VisibleRemoteServicesUpdated_Set(p)

\* the /ws/logs handler of a connection, and the fate of the connection
WsStep(c) ==
    \/ ws_Attach(c)
    \/ ws_GetLogs(c)
    \/ ws_SendLog(c)
    \/ ws_SendState(c)
    \/ ws_Detach(c)
    \/ ConnBreak(c)
    \/ ConnStall(c)

\* operations a worker starts
Start(p) ==
    \/ HandleEgLPP(p)
    \/ HandleEgLPC(p)
    \/ HandleEgEvcc(p)
    \/ HandleEgEvcem(p)
    \/ HandleEgEvsecc(p)
    \/ HandleEgCevc(p)
    \/ HandleMaMpc(p)
    \/ HandleMaMGCP(p)
    \/ HandleCemOpev(p)
    \/ HandleCemOscev(p)
    \/ HandleCemEvsoc(p)
    \/ RemoteSKIConnected(p)
    \/ RemoteSKIDisconnected(p)
    \/ VisibleRemoteServicesUpdated(p)
    \/ removePeer(p)
    \/ getAllPeers(p)
    \/ getLogs(p)
    \/ apiPoll(p)
    \/ apiWrite(p)
    \/ setUsecaseSupported(p)
    \/ printFormat(p)
    \/ Trace(p)
    \/ Trace_InSetup(p)
    \/ extractSKIFromMessage_Call(p)

Next ==
    \/ \E p \in Workers : Start(p)
    \/ \E p \in Procs : Step(p)
    \/ \E c \in Conns : WsStep(c)

Spec == Init /\ [][Next]_vars

(***************************************************************************)
(* Spec is the whole system: any worker starts any operation, any client   *)
(* attaches, stalls or breaks.  The specifications below restrict its      *)
(* environment to the operations and inputs a group of claims is about, so *)
(* that TLC exhausts them; every behaviour of one of them is a behaviour   *)
(* of Spec (for SpecHandlers: of Spec started with every use case enabled).*)
(***************************************************************************)

\* a scenario has operations left to start
FewOps == ops < MaxScenarioOps

\* The registry under concurrent workers: connection and discovery events and
\* removePeer; no websocket client connects.
NextRegistry ==
    \/ \E p \in Workers : RemoteSKIConnected(p) /\ FewOps
    \/ \E p \in Workers : RemoteSKIDisconnected(p) /\ FewOps
    \/ \E p \in Workers : VisibleRemoteServicesUpdated(p) /\ FewOps
    \/ \E p \in Workers : removePeer(p) /\ FewOps
    \/ \E p \in Workers : getOrCreatePeer_Lock(p)
    \/ \E p \in Workers : getOrCreatePeer_Find(p)
    \/ \E p \in Workers : getOrCreatePeer_New(p)
    \/ \E p \in Workers : getOrCreatePeer_Seed(p)
    \/ \E p \in Workers : RemoteSKIConnected_Set(p)
    \/ \E p \in Workers : RemoteSKIDisconnected_Set(p)
    \/ \E p \in Workers : VisibleRemoteServicesUpdated_Set(p)
    \/ \E p \in Workers : broadcastPeerList(p)
    \/ \E p \in Workers : broadcast_Lock(p)
    \/ \E p \in Workers : broadcast_End(p)

SpecRegistry == Init /\ [][NextRegistry]_vars

\* Snapshots: workers call getAllPeers while others create and remove records;
\* no websocket client connects.
NextSnapshot ==
    \/ \E p \in Workers : getAllPeers(p)
    \/ \E p \in Workers : RemoteSKIConnected(p)
    \/ \E p \in Workers : removePeer(p)
    \/ \E p \in Workers : getOrCreatePeer_Lock(p)
    \/ \E p \in Workers : getOrCreatePeer_Find(p)
    \/ \E p \in Workers : getOrCreatePeer_New(p)
    \/ \E p \in Workers : getOrCreatePeer_Seed(p)
    \/ \E p \in Workers : RemoteSKIConnected_Set(p)
    \/ \E p \in Workers : broadcastPeerList(p)
    \/ \E p \in Workers : broadcast_Lock(p)
    \/ \E p \in Workers : broadcast_End(p)

SpecSnapshot == Init /\ [][NextSnapshot]_vars

\* Lock order: workers call RemoteSKIConnected and setUsecaseSupported
\* concurrently; no websocket client connects.
NextLocks ==
    \/ \E p \in Workers : RemoteSKIConnected(p)
    \/ \E p \in Workers : setUsecaseSupported(p)
    \/ \E p \in Workers : getOrCreatePeer_Lock(p)
    \/ \E p \in Workers : getOrCreatePeer_Find(p)
    \/ \E p \in Workers : getOrCreatePeer_New(p)
    \/ \E p \in Workers : getOrCreatePeer_Seed(p)
    \/ \E p \in Workers : RemoteSKIConnected_Set(p)
    \/ \E p \in Workers : setUsecaseSupported_Peers(p)
    \/ \E p \in Workers : setUsecaseSupported_Ws(p)
    \/ \E p \in Workers : setUsecaseSupported_Range(p)
    \/ \E p \in Workers : broadcastPeerList(p)
    \/ \E p \in Workers : broadcast_Lock(p)
    \/ \E p \in Workers : broadcast_End(p)

SpecLocks == Init /\ [][NextLocks]_vars

\* The log buffer under concurrent loggers; no websocket client connects.
NextLog ==
    \/ \E p \in Workers : printFormat(p)
    \/ \E p \in Workers : appendLog(p)
    \/ \E p \in Workers : broadcast_Lock(p)
    \/ \E p \in Workers : broadcast_End(p)

SpecLog == Init /\ [][NextLog]_vars

\* the goroutine that works in the scenarios with one worker
Solo == CHOOSE p \in Workers : TRUE

\* Solo logs a line that names no peer
LogPlainLine == printFormat(Solo) /\ FewOps /\ loc'[Solo].line.tag = NoSki

\* Subscribers: one goroutine logs lines that name no peer while websocket
\* clients attach, receive their snapshot, break and detach.
NextSubscribers ==
    \/ LogPlainLine
    \/ appendLog(Solo)
    \/ \E p \in Procs : broadcast_Lock(p)
    \/ \E p \in Procs : broadcast_Write(p)
    \/ \E p \in Procs : broadcast_End(p)
    \/ \E c \in Conns : ws_Attach(c)
    \/ \E c \in Conns : ws_GetLogs(c)
    \/ \E c \in Conns : ws_SendLog(c)
    \/ \E c \in Conns : ws_SendState(c)
    \/ \E c \in Conns : broadcastPeerList(c)
    \/ \E c \in Conns : ws_Detach(c)
    \/ \E c \in Conns : ConnBreak(c)

SpecSubscribers == Init /\ [][NextSubscribers]_vars

\* Attach: websocket clients attach and receive their snapshot while one
\* goroutine logs lines and connects peers.
NextAttach ==
    \/ LogPlainLine
    \/ RemoteSKIConnected(Solo) /\ FewOps
    \/ appendLog(Solo)
    \/ getOrCreatePeer_Lock(Solo)
    \/ getOrCreatePeer_Find(Solo)
    \/ getOrCreatePeer_New(Solo)
    \/ getOrCreatePeer_Seed(Solo)
    \/ RemoteSKIConnected_Set(Solo)
    \/ \E p \in Procs : broadcastPeerList(p)
    \/ \E p \in Procs : broadcast_Lock(p)
    \/ \E p \in Procs : broadcast_Write(p)
    \/ \E p \in Procs : broadcast_End(p)
    \/ \E c \in Conns : ws_Attach(c)
    \/ \E c \in Conns : ws_GetLogs(c)
    \/ \E c \in Conns : ws_SendLog(c)
    \/ \E c \in Conns : ws_SendState(c)

SpecAttach == Init /\ [][NextAttach]_vars

\* Trace and Debug lines: one goroutine calls Trace, Tracef, Debug and Debugf
\* under every logging configuration while websocket clients attach.
NextTrace ==
    \/ Trace(Solo) /\ FewOps
    \/ appendLog(Solo)
    \/ broadcast_Lock(Solo)
    \/ broadcast_Write(Solo)
    \/ broadcast_End(Solo)
    \/ Trace_Stdout(Solo)
    \/ \E c \in Conns : ws_Attach(c)

SpecTrace == Init /\ [][NextTrace]_vars

\* Log pushes: one goroutine logs more lines than the buffer holds while
\* websocket clients attach and break.
NextLogPush ==
    \/ printFormat(Solo) /\ loc'[Solo].line.tag = NoSki
    \/ appendLog(Solo)
    \/ broadcast_Lock(Solo)
    \/ broadcast_Write(Solo)
    \/ broadcast_End(Solo)
    \/ \E c \in Conns : ws_Attach(c)
    \/ \E c \in Conns : ConnBreak(c)

SpecLogPush == Init /\ [][NextLogPush]_vars

\* Encoding failures: one goroutine connects peer "s1", handles LPC events for
\* it and calls setUsecaseSupported, and any message may fail to encode; a
\* websocket client attaches.
NextMarshal ==
    \/ RemoteSKIConnected(Solo) /\ loc'[Solo].ski = "s1"
    \/ HandleEgLPC(Solo) /\ loc'[Solo].ski = "s1" /\ loc'[Solo].dev /\ ~loc'[Solo].err
    \/ setUsecaseSupported(Solo)
    \/ getOrCreatePeer_Lock(Solo)
    \/ getOrCreatePeer_Find(Solo)
    \/ getOrCreatePeer_New(Solo)
    \/ getOrCreatePeer_Seed(Solo)
    \/ RemoteSKIConnected_Set(Solo)
    \/ Handle_Dispatch(Solo)
    \/ setUsecaseSupportedForPeer_Set(Solo)
    \/ setUsecaseSupportedForPeer_Global(Solo)
    \/ setUsecaseSupportedForPeer_MarshalError(Solo)
    \/ updateEntitiesFromDevice(Solo)
    \/ updateEntitiesFromDevice_MarshalError(Solo)
    \/ broadcastPeerList(Solo)
    \/ broadcastPeerList_MarshalError(Solo)
    \/ setUsecaseSupported_Peers(Solo)
    \/ setUsecaseSupported_Ws(Solo)
    \/ setUsecaseSupported_Range(Solo)
    \/ setUsecaseSupported_MarshalError(Solo)
    \/ Errorf(Solo)
    \/ appendLog(Solo)
    \/ broadcast_Lock(Solo)
    \/ broadcast_Write(Solo)
    \/ broadcast_End(Solo)
    \/ \E c \in Conns : ws_Attach(c)

SpecMarshal == Init /\ [][NextMarshal]_vars

\* Correlator: one goroutine connects peers and calls extractSKIFromMessage on
\* messages.
NextExtract ==
    \/ RemoteSKIConnected(Solo) /\ FewOps
    \/ extractSKIFromMessage_Call(Solo) /\ FewOps
    \/ getOrCreatePeer_Lock(Solo)
    \/ getOrCreatePeer_Find(Solo)
    \/ getOrCreatePeer_New(Solo)
    \/ getOrCreatePeer_Seed(Solo)
    \/ RemoteSKIConnected_Set(Solo)
    \/ broadcastPeerList(Solo)
    \/ broadcast_Lock(Solo)
    \/ broadcast_End(Solo)

SpecExtract == Init /\ [][NextExtract]_vars

\* Setup: the service logs through the registered logger while run() is in
\* Setup(), before the configuration is loaded.
NextSetup ==
    \/ \E p \in Workers : Trace_InSetup(p)
    \/ \E p \in Workers : printFormat(p)
    \/ \E p \in Workers : appendLog(p)
    \/ \E p \in Workers : broadcast_Lock(p)
    \/ \E p \in Workers : broadcast_End(p)
    \/ \E p \in Workers : Trace_Stdout(p)

SpecSetup == Init /\ [][NextSetup]_vars

\* Log snapshots: workers log lines that name no peer and call getLogs; no
\* websocket client connects.
NextLogCopy ==
    \/ \E p \in Workers : printFormat(p) /\ loc'[p].line.tag = NoSki
    \/ \E p \in Workers : getLogs(p)
    \/ \E p \in Workers : appendLog(p)
    \/ \E p \in Workers : broadcast_Lock(p)
    \/ \E p \in Workers : broadcast_End(p)

SpecLogCopy == Init /\ [][NextLogCopy]_vars

\* Polling: one goroutine connects peers and serves polling requests one after
\* the other while websocket clients attach.
NextPoll ==
    \/ RemoteSKIConnected(Solo)
    \/ apiPoll(Solo)
    \/ getOrCreatePeer_Lock(Solo)
    \/ getOrCreatePeer_Find(Solo)
    \/ getOrCreatePeer_New(Solo)
    \/ getOrCreatePeer_Seed(Solo)
    \/ RemoteSKIConnected_Set(Solo)
    \/ broadcastPeerList(Solo)
    \/ apiPoll_Errorf(Solo)
    \/ appendLog(Solo)
    \/ broadcast_Lock(Solo)
    \/ broadcast_Write(Solo)
    \/ broadcast_End(Solo)
    \/ apiPoll_Return(Solo)
    \/ \E c \in Conns : ws_Attach(c)

SpecPoll == Init /\ [][NextPoll]_vars

\* a stalled connection breaks (its client is gone for good)
StalledConnBreaks(c) == ConnBreak(c) /\ health[c] = "stalled"

\* Stalled subscribers: as SpecSubscribers, but a client may stop reading, so
\* that a write to its connection does not return until the connection breaks.
NextStall ==
    \/ LogPlainLine
    \/ appendLog(Solo)
    \/ \E p \in Procs : broadcast_Lock(p)
    \/ \E p \in Procs : broadcast_Write(p)
    \/ \E p \in Procs : broadcast_Block(p)
    \/ \E p \in Procs : broadcast_Unblock(p)
    \/ \E p \in Procs : broadcast_End(p)
    \/ \E c \in Conns : ws_Attach(c)
    \/ \E c \in Conns : ws_GetLogs(c)
    \/ \E c \in Conns : ws_SendLog(c)
    \/ \E c \in Conns : ws_SendState(c)
    \/ \E c \in Conns : broadcastPeerList(c)
    \/ \E c \in Conns : ws_Detach(c)
    \/ \E c \in Conns : ConnStall(c)
    \/ \E c \in Conns : StalledConnBreaks(c)

SpecStall == Init /\ [][NextStall]_vars

\* an LPC support event that carries its device
LPCSupportEvent(p) ==
    /\ HandleEgLPC(p)
    /\ FewOps
    /\ loc'[p].event = SupportUpdate
    /\ loc'[p].dev

\* Seeding: workers create records while LPC support events and
\* setUsecaseSupported change the global state; no websocket client connects.
NextSeed ==
    \/ \E p \in Workers : RemoteSKIConnected(p) /\ FewOps
    \/ \E p \in Workers : setUsecaseSupported(p) /\ FewOps
    \/ \E p \in Workers : LPCSupportEvent(p)
    \/ \E p \in Workers : getOrCreatePeer_Lock(p)
    \/ \E p \in Workers : getOrCreatePeer_Find(p)
    \/ \E p \in Workers : getOrCreatePeer_New(p)
    \/ \E p \in Workers : getOrCreatePeer_Seed(p)
    \/ \E p \in Workers : RemoteSKIConnected_Set(p)
    \/ \E p \in Workers : Handle_Dispatch(p)
    \/ \E p \in Workers : setUsecaseSupportedForPeer_Set(p)
    \/ \E p \in Workers : setUsecaseSupportedForPeer_Global(p)
    \/ \E p \in Workers : updateEntitiesFromDevice(p)
    \/ \E p \in Workers : setUsecaseSupported_Peers(p)
    \/ \E p \in Workers : setUsecaseSupported_Ws(p)
    \/ \E p \in Workers : setUsecaseSupported_Range(p)
    \/ \E p \in Workers : broadcastPeerList(p)
    \/ \E p \in Workers : broadcast_Lock(p)
    \/ \E p \in Workers : broadcast_End(p)

SpecSeed == Init /\ [][NextSeed]_vars

\* Write commands: Solo connects peers and serves /api/write requests one
\* after the other; no websocket client connects.
NextWrite ==
    \/ RemoteSKIConnected(Solo)
    \/ apiWrite(Solo)
    \/ getOrCreatePeer_Lock(Solo)
    \/ getOrCreatePeer_Find(Solo)
    \/ getOrCreatePeer_New(Solo)
    \/ getOrCreatePeer_Seed(Solo)
    \/ RemoteSKIConnected_Set(Solo)
    \/ broadcastPeerList(Solo)
    \/ broadcast_Lock(Solo)
    \/ broadcast_End(Solo)
    \/ Write_Entity(Solo)
    \/ Write_Return(Solo)

SpecWrite == Init /\ [][NextWrite]_vars

\* Peer records: Solo runs connection and discovery events, LPC events and
\* removePeer one after the other, for either peer.
NextPeers ==
    \/ RemoteSKIConnected(Solo)
    \/ RemoteSKIDisconnected(Solo)
    \/ VisibleRemoteServicesUpdated(Solo)
    \/ removePeer(Solo)
    \/ HandleEgLPC(Solo)
    \/ getOrCreatePeer_Lock(Solo)
    \/ getOrCreatePeer_Find(Solo)
    \/ getOrCreatePeer_New(Solo)
    \/ getOrCreatePeer_Seed(Solo)
    \/ RemoteSKIConnected_Set(Solo)
    \/ RemoteSKIDisconnected_Set(Solo)
    \/ VisibleRemoteServicesUpdated_Set(Solo)
    \/ Handle_Dispatch(Solo)
    \/ setUsecaseSupportedForPeer_Set(Solo)
    \/ setUsecaseSupportedForPeer_Global(Solo)
    \/ updateEntitiesFromDevice(Solo)
    \/ broadcastPeerList(Solo)
    \/ broadcast_Lock(Solo)
    \/ broadcast_End(Solo)

SpecPeers == Init /\ [][NextPeers]_vars

\* Connection events: Solo connects, disconnects and removes either peer while
\* websocket clients attach and receive what is broadcast.
NextConnect ==
    \/ RemoteSKIConnected(Solo) /\ FewOps
    \/ RemoteSKIDisconnected(Solo) /\ FewOps
    \/ removePeer(Solo) /\ FewOps
    \/ getOrCreatePeer_Lock(Solo)
    \/ getOrCreatePeer_Find(Solo)
    \/ getOrCreatePeer_New(Solo)
    \/ getOrCreatePeer_Seed(Solo)
    \/ RemoteSKIConnected_Set(Solo)
    \/ RemoteSKIDisconnected_Set(Solo)
    \/ \E p \in Procs : broadcastPeerList(p)
    \/ \E p \in Procs : broadcast_Lock(p)
    \/ \E p \in Procs : broadcast_Write(p)
    \/ \E p \in Procs : broadcast_End(p)
    \/ \E c \in Conns : ws_Attach(c)
    \/ \E c \in Conns : ws_GetLogs(c)
    \/ \E c \in Conns : ws_SendState(c)

SpecConnect == Init /\ [][NextConnect]_vars

\* the state after run() under a configuration that enables every use case
InitAll == InitWith(AllUseCases)

\* a use-case event of peer "s1" arrives at Solo
EventForS1(p) ==
    /\ p = Solo
    /\ FewOps
    /\ loc'[p].ski = "s1"

\* Use-case events: Solo runs the eleven handlers one event after the other.
NextHandlers ==
    \/ \E p \in Workers : HandleEgLPP(p) /\ EventForS1(p)
    \/ \E p \in Workers : HandleEgLPC(p) /\ EventForS1(p)
    \/ \E p \in Workers : HandleEgEvcc(p) /\ EventForS1(p)
    \/ \E p \in Workers : HandleEgEvcem(p) /\ EventForS1(p)
    \/ \E p \in Workers : HandleEgEvsecc(p) /\ EventForS1(p)
    \/ \E p \in Workers : HandleEgCevc(p) /\ EventForS1(p)
    \/ \E p \in Workers : HandleMaMpc(p) /\ EventForS1(p)
    \/ \E p \in Workers : HandleMaMGCP(p) /\ EventForS1(p)
    \/ \E p \in Workers : HandleCemOpev(p) /\ EventForS1(p)
    \/ \E p \in Workers : HandleCemOscev(p) /\ EventForS1(p)
    \/ \E p \in Workers : HandleCemEvsoc(p) /\ EventForS1(p)
    \/ getOrCreatePeer_Lock(Solo)
    \/ getOrCreatePeer_Find(Solo)
    \/ getOrCreatePeer_New(Solo)
    \/ getOrCreatePeer_Seed(Solo)
    \/ Handle_Dispatch(Solo)
    \/ setUsecaseSupportedForPeer_Set(Solo)
    \/ setUsecaseSupportedForPeer_Global(Solo)
    \/ updateEntitiesFromDevice(Solo)
    \/ broadcast_Lock(Solo)
    \/ broadcast_End(Solo)

SpecHandlers == InitAll /\ [][NextHandlers]_vars

(* ------------------------------- claims -------------------------------- *)
\* a handler invocation has returned
Done(p) == pc[p] = "idle" /\ loc[p].op \in Handlers

\* the messages of one type among those an operation has broadcast
OfType(msgs, t) == {i \in DOMAIN msgs : msgs[i].type = t}

\* peerData objects created for ski and not deleted from the map by removePeer
LiveRecords(ski) == {i \in DOMAIN heap : heap[i].ski = ski /\ i \notin removed}

\* C1: under any interleaving of getOrCreatePeer calls, at most one record
\* exists for an identifier (it is the one the peers map holds), and every
\* caller whose record was not removed since holds a reference to that record.
C1_OneRecordPerSki ==
    /\ \A ski \in SKIs :
        /\ Cardinality(LiveRecords(ski)) <= 1
        /\ ski \in DOMAIN peers => LiveRecords(ski) = {peers[ski]}
    /\ \A p \in Procs :
        (loc[p].peer # Nil /\ loc[p].peer \notin removed)
            => (loc[p].ski \in DOMAIN peers /\ peers[loc[p].ski] = loc[p].peer)

\* two workers whose getOrCreatePeer calls for one identifier overlapped both
\* hold the same record, and both are still inside their operation
C1_Witness ==
    \E p, q \in Workers :
        /\ p # q
        /\ pc[p] \in {"rc_set", "v_set"} /\ pc[q] \in {"rc_set", "v_set"}
        /\ loc[p].ski = loc[q].ski
        /\ loc[p].peer # Nil /\ loc[p].peer = loc[q].peer

\* C2: every message a connection receives from a broadcast run by another
\* goroutine comes after the last message of its own initial snapshot (the
\* peer list its handler sends).
C2_SnapshotBeforeDelta ==
    \A c \in Conns : \A i \in 1..Len(received[c]) :
        received[c][i].by # c
            => \E j \in 1..(i - 1) :
                   received[c][j].by = c /\ received[c][j].m.type = "peers"

\* C3: a connection whose push failed in a broadcast is out of wsConns from
\* then on, and no broadcast writes to it again.
C3_EvictedStaysOut ==
    /\ [](evicted \cap wsConns = {})
    /\ [][\A c \in evicted : pushes'[c] = pushes[c]]_vars

\* scenario B: of two subscribers one failed on its third push; a later
\* broadcast set out with the survivor alone and has delivered to it
C3_Witness ==
    \E c, d \in Conns :
        /\ c # d
        /\ evicted = {d} /\ pushes[d] = 3
        /\ wsConns = {c}
        /\ pc[Solo] = "bc_loop" /\ loc[Solo].targets = {c} /\ loc[Solo].pending = {}
        /\ received[c] # <<>>
        /\ received[c][Len(received[c])] = [m |-> loc[Solo].msg, by |-> Solo]

\* C4: a use-case message is broadcast only for a write that changes the
\* stored flag: no broadcast of setUsecaseSupportedForPeer follows a write of
\* the value the peer already held.
C4_BroadcastOnlyOnChange ==
    \A p \in Workers :
        (/\ loc[p].op \in Handlers
         /\ pc[p] \in {"bc_lock", "bc_loop"}
         /\ loc[p].msg.type = "usecase") => ~loc[p].same

\* the mutex a goroutine is about to lock at its position ("" if none)
WaitsFor(p) ==
    CASE pc[p] \in {"gocp_lock", "sus_peers", "bpl"} -> "peersMu"
      [] pc[p] \in {"gocp_seed", "sufp_global", "ws_sendstate"} -> "ucMu"
      [] pc[p] \in {"bc_lock", "sus_ws", "ws_new"} -> "wsMu"
      [] pc[p] \in {"al", "ws_getlogs"} -> "logMu"
      [] OTHER -> ""

\* the goroutine that holds the mutex p is waiting for (Free if p can go on)
BlockedBy(p) == IF WaitsFor(p) = "" THEN Free ELSE mu[WaitsFor(p)]

RECURSIVE WaitChain(_, _, _)
\* q is reached from p by following BlockedBy at most n times
WaitChain(p, q, n) ==
    /\ n > 0
    /\ BlockedBy(p) # Free
    /\ (BlockedBy(p) = q \/ WaitChain(BlockedBy(p), q, n - 1))

\* C5: no goroutine ever waits for a mutex that can never be released to it:
\* there is no cycle of goroutines each waiting for a mutex the next one holds.
C5_NoLockCycle == \A p \in Procs : ~WaitChain(p, p, Cardinality(Mutexes))

\* C6: a push that does not return keeps no other subscriber of the same
\* broadcast waiting: while a broadcast is blocked in a write, no other
\* connection is still to be written to.
C6_BlockedPushDelaysNoOne ==
    \A p \in Procs :
        pc[p] = "bc_blocked" => loc[p].pending \ {loc[p].blocked} = {}

\* the last n elements of a sequence
LastN(seq, n) == SubSeq(seq, Len(seq) - n + 1, Len(seq))

\* C7: the log buffer never holds more than maxLogs lines, and it holds the
\* most recently appended lines in order: after maxLogs + k appends the k
\* oldest lines are gone and the newest line is the last element.
C7_LogRingBound ==
    /\ Len(logs) <= maxLogs
    /\ logs = LastN(appended, IF Len(appended) < maxLogs THEN Len(appended) ELSE maxLogs)

\* more lines were appended than the buffer holds
C7_Witness ==
    /\ Len(appended) > maxLogs
    /\ Len(logs) = maxLogs
    /\ appended[1] \notin {logs[i] : i \in DOMAIN logs}
    /\ logs[Len(logs)] = appended[Len(appended)]

\* C8: no connection receives the same log line twice.
C8_AtMostOnce ==
    \A c \in Conns : \A i, j \in 1..Len(received[c]) :
        (i # j /\ received[c][i].m.type = "log" /\ received[c][j].m.type = "log")
            => received[c][i].m.line.id # received[c][j].m.line.id

\* C9: every handler invocation for an event that carries its device, of
\* whatever kind, has made exactly one broadcast when it returns.
C9_OneBroadcastPerEvent ==
    \A p \in Workers : (Done(p) /\ loc[p].dev) => Len(loc[p].sent) = 1

\* C10: a support event for a registered peer whose use case was unsupported
\* has produced exactly one use-case message when the handler returns, and
\* the message carries the use case, true and the peer's identifier.
C10_OneSupportMessage ==
    \A p \in Workers :
        (/\ Done(p)
         /\ loc[p].event = SupportUpdate
         /\ loc[p].found
         /\ loc[p].pre = "unsupported")
            => /\ Cardinality(OfType(loc[p].sent, "usecase")) = 1
               /\ \A i \in OfType(loc[p].sent, "usecase") :
                      loc[p].sent[i] = UsecaseMsg(loc[p].name, TRUE, loc[p].ski)

\* the records the peers map holds
Records == {peers[k] : k \in DOMAIN peers}

\* C11: when an operation that changed the global value of a use case has
\* returned, every record in the peers map holds that value for the use case.
C11_GlobalChangeReachesEveryPeer ==
    \A p \in Workers :
        (/\ pc[p] = "idle"
         /\ loc[p].op \in Handlers \cup {"setUsecaseSupported"}
         /\ loc[p].gchanged)
            => \A i \in Records :
                   /\ loc[p].name \in DOMAIN heap[i].usecaseState
                   /\ heap[i].usecaseState[loc[p].name] = globalUseCaseState[loc[p].name]

\* C12: a record that getOrCreatePeer has inserted is the empty record, and
\* no other goroutine holds it, until the creator seeds it; when the creator
\* returns, the record is the empty record with usecaseState equal to
\* globalUseCaseState as the seeding copy found it.
C12_NewRecordSeeded ==
    /\ [](\A p \in Procs :
            pc[p] = "gocp_seed"
                => /\ heap[loc[p].peer] = NewPeerData(loc[p].ski)
                   /\ \A q \in Procs \ {p} : loc[q].peer # loc[p].peer)
    /\ [][\A p \in Procs :
            (pc[p] = "gocp_seed" /\ pc'[p] # "gocp_seed")
                => heap'[loc[p].peer] =
                       [NewPeerData(loc[p].ski) EXCEPT !.usecaseState = globalUseCaseState]]_vars

\* a worker has just created a record while a use case was globally supported
C12_Witness ==
    \E p \in Workers :
        /\ pc[p] \in {"rc_set", "h_dispatch"}
        /\ ~loc[p].found /\ loc[p].peer # Nil
        /\ \E n \in DOMAIN globalUseCaseState : globalUseCaseState[n]
        /\ heap[loc[p].peer].usecaseState = globalUseCaseState

\* C13: the step in which getOrCreatePeer finds a record for its identifier
\* returns that record, leaves the peers map and every record unchanged (the
\* record's usecaseState is not copied again from the global state), and
\* sends nothing to any websocket connection.
C13_FindIsIdempotent ==
    [][\A p \in Procs :
        (pc[p] = "gocp_find" /\ pc'[p] # "gocp_find" /\ loc[p].ski \in DOMAIN peers)
            => /\ loc'[p].peer = peers[loc[p].ski]
               /\ peers' = peers
               /\ heap' = heap
               /\ UNCHANGED wsVars]_vars

\* getOrCreatePeer has returned an existing record whose usecaseState differs
\* from the global state
C13_Witness ==
    \E p \in Workers :
        /\ pc[p] \in {"rc_set", "h_dispatch", "v_set"}
        /\ loc[p].found /\ loc[p].peer # Nil
        /\ loc[p].ski \in DOMAIN peers /\ peers[loc[p].ski] = loc[p].peer
        /\ heap[loc[p].peer].usecaseState # globalUseCaseState

\* C14: the connected flag of a record changes only in the step of
\* RemoteSKIConnected or RemoteSKIDisconnected that assigns it; discovery
\* updates and use-case events leave it as it is.
C14_ConnectedOnlyByConnectionEvents ==
    [][\A i \in DOMAIN heap :
        heap'[i].connected # heap[i].connected
            => \E p \in Procs :
                   /\ pc[p] \in {"rc_set", "rd_set"}
                   /\ pc'[p] # pc[p]
                   /\ loc[p].peer = i]_vars

\* C15: the step of RemoteSKIDisconnected that clears connected changes
\* nothing else: the peers map and every other field of every record stay as
\* they were; and an identifier leaves the peers map only in a removePeer step.
C15_DisconnectKeepsRecord ==
    [][/\ \A p \in Procs :
            (pc[p] = "rd_set" /\ pc'[p] # "rd_set")
                => /\ peers' = peers
                   /\ heap' = [heap EXCEPT ![loc[p].peer].connected = FALSE]
       /\ (\E k \in DOMAIN peers : k \notin DOMAIN peers')
            => \E p \in Procs : loc'[p].op = "removePeer" /\ ops' # ops]_vars

\* RemoteSKIDisconnected has cleared connected on a record that carries a
\* discovered descriptor or a supported use case, and the record is in the map
C15_Witness ==
    \E p \in Workers :
        /\ pc[p] = "bpl" /\ loc[p].op = "RemoteSKIDisconnected"
        /\ loc[p].ski \in DOMAIN peers /\ peers[loc[p].ski] = loc[p].peer
        /\ ~heap[loc[p].peer].connected
        /\ \/ heap[loc[p].peer].deviceName = "discovered"
           \/ \E n \in DOMAIN heap[loc[p].peer].usecaseState :
                  heap[loc[p].peer].usecaseState[n]

\* the step is a call of removePeer by p
RemovesPeer(p) ==
    /\ ops' # ops
    /\ loc'[p].op = "removePeer"
    /\ pc' = pc
    /\ \A q \in Procs \ {p} : loc'[q] = loc[q]

\* C16: a removePeer(ski) step leaves getPeer(ski) nil, every other entry of
\* the peers map, every record, the log buffer, the global use-case state and
\* what every websocket connection has received unchanged; and an identifier
\* enters the peers map only in the inserting step of a getOrCreatePeer for it.
C16_RemoveThenAbsent ==
    [][/\ \A p \in Procs :
            RemovesPeer(p)
                => /\ \A ski \in SKIs :
                          ski = loc'[p].ski
                              => /\ getPeer(ski)' = Nil
                                 /\ \A k \in DOMAIN peers \ {ski} :
                                        k \in DOMAIN peers' /\ peers'[k] = peers[k]
                   /\ heap' = heap
                   /\ UNCHANGED <<logVars, globalUseCaseState, wsVars>>
       /\ \A k \in DOMAIN peers' \ DOMAIN peers :
              \E p \in Procs :
                  pc[p] = "gocp_new" /\ pc'[p] = "gocp_seed" /\ loc[p].ski = k]_vars

\* removePeer has removed a record while another record stays in the map
C16_Witness ==
    \E p \in Workers :
        /\ pc[p] = "idle" /\ loc[p].op = "removePeer"
        /\ removed # {}
        /\ getPeer(loc[p].ski) = Nil
        /\ \E k \in DOMAIN peers : k # loc[p].ski

\* C17: while a caller holds the map getAllPeers returned to it, no step of
\* any goroutine changes the entries of that map.
C17_AllPeersIsACopy ==
    [][\A p \in Procs :
        (loc[p].op = "getAllPeers" /\ loc'[p] = loc[p])
            => Deref(loc[p].all)' = Deref(loc[p].all)]_vars

\* a caller holds a returned map with an entry that has since been removed
\* from the peers map
C17_Witness ==
    \E p \in Workers :
        /\ loc[p].op = "getAllPeers"
        /\ removed # {}
        /\ DOMAIN Deref(loc[p].all) \ DOMAIN peers # {}

\* a /api/write request that called its Write function has been answered
WriteDone(p) ==
    /\ pc[p] = "idle"
    /\ loc[p].op = "apiWrite"
    /\ loc[p].w.status \in {"200", "500"}

\* the entity writes of a request that returned an error
Failed(w) == {j \in DOMAIN w.results : w.results[j] # NoErr}

\* the entities whose name occurs in a text
NamedIn(text) ==
    {i \in DOMAIN RemoteEntities :
        \E k \in DOMAIN text : text[k] = RemoteEntities[i].name}

\* C18: a limit command that has returned has attempted the write on every
\* entity RemoteEntitiesScenarios listed, in order; it returned nil exactly
\* when no write failed, and otherwise an error whose text names exactly the
\* entities whose write failed, each followed by its reason.
C18_AllEntitiesTriedErrorsCombined ==
    \A p \in Workers :
        (WriteDone(p) /\ loc[p].w.cmd \in LimitCmds)
            => LET w == loc[p].w IN
               /\ w.tried = w.entities
               /\ Len(w.results) = Len(w.entities)
               /\ (w.ret = <<>>) <=> (Failed(w) = {})
               /\ w.ret # <<>>
                    => /\ \A i \in DOMAIN RemoteEntities :
                              i \in NamedIn(w.ret)
                                  <=> \E j \in Failed(w) : w.tried[j] = RemoteEntities[i]
                       /\ \A j \in Failed(w) :
                              \E k \in 1..(Len(w.ret) - 2) :
                                  /\ w.ret[k] = w.tried[j].name
                                  /\ w.ret[k + 1] = ": "
                                  /\ w.ret[k + 2] = w.results[j]

\* a limit command over three entities of which only the second failed has
\* returned an error that names the second entity only
C18_Witness ==
    \E p \in Workers :
        /\ WriteDone(p) /\ loc[p].w.cmd \in LimitCmds
        /\ Len(loc[p].w.entities) = 3
        /\ Failed(loc[p].w) = {2}
        /\ loc[p].w.status = "500"
        /\ NamedIn(loc[p].w.body) = {2}

\* C19: a write command one of whose entity writes failed is not answered
\* "ok", whichever of the eight commands it is.
C19_FailedWriteIsReported ==
    \A p \in Workers :
        (WriteDone(p) /\ Failed(loc[p].w) # {})
            => loc[p].w.body # <<"ok">>

\* C20: while both peers are connected, a write command whose payload names
\* a peer has written only to entities of that peer.
C20_WriteReachesTargetPeerOnly ==
    \A p \in Workers :
        (/\ WriteDone(p)
         /\ \A k \in SKIs : k \in DOMAIN peers /\ heap[peers[k]].connected)
            => \A j \in DOMAIN loc[p].w.tried : loc[p].w.tried[j].ski = loc[p].w.ski

\* the messages connection c received from its own /ws/logs handler
Own(c) == SelectSeq(received[c], LAMBDA r : r.by = c)

\* the messages a step appended to what connection c has received
NewTo(c) == SubSeq(received'[c], Len(received[c]) + 1, Len(received'[c]))

\* the handler of a healthy connection has sent its snapshot
Attached(c) == pc[c] = "ws_read" /\ health[c] = "ok"

\* C21: the /ws/logs handler of a healthy connection reads the whole log
\* buffer and sends its lines one by one in order, then sends one usecase
\* message for each entry of globalUseCaseState with the entry's value, then
\* builds a peers message with one entry per record of the peers map carrying
\* the record's usecaseState and sends it; when the handler reaches its read
\* loop, what it sent is log lines, then usecase messages, then the peers
\* message.
C21_AttachSnapshot ==
    /\ [](\A c \in Conns :
            Attached(c)
                => LET o == Own(c) IN
                   /\ o # <<>> /\ o[Len(o)].m.type = "peers"
                   /\ \A i, j \in DOMAIN o :
                          i < j => /\ o[j].m.type = "log" => o[i].m.type = "log"
                                   /\ o[i].m.type = "peers" => FALSE)
    /\ [][\A c \in Conns :
            /\ (pc[c] = "ws_getlogs" /\ pc'[c] # "ws_getlogs") => loc'[c].snap = logs
            /\ (pc[c] = "ws_sendlogs" /\ health[c] = "ok" /\ loc'[c] # loc[c])
                    => /\ NewTo(c) = <<[m |-> LogMsg(Head(loc[c].snap)), by |-> c]>>
                       /\ loc'[c].snap = Tail(loc[c].snap)
                       /\ pc'[c] = "ws_sendstate" <=> loc'[c].snap = <<>>
            /\ (pc[c] = "ws_sendstate" /\ health[c] = "ok" /\ pc'[c] # "ws_sendstate")
                    => /\ Len(NewTo(c)) = Cardinality(DOMAIN globalUseCaseState)
                       /\ \A n \in DOMAIN globalUseCaseState :
                              \E i \in DOMAIN NewTo(c) :
                                  NewTo(c)[i] =
                                      [m |-> UsecaseSnapshotMsg(n, globalUseCaseState[n]), by |-> c]
            /\ (pc[c] = "bpl" /\ pc'[c] # "bpl")
                    => loc'[c].msg =
                           PeersMsg({[ski |-> k, connected |-> heap[peers[k]].connected,
                                      usecases |-> heap[peers[k]].usecaseState,
                                      deviceName |-> heap[peers[k]].deviceName] :
                                        k \in DOMAIN peers})
            /\ (pc[c] = "bc_loop" /\ health[c] = "ok" /\ c \in loc[c].pending
                   /\ c \notin loc'[c].pending)
                    => NewTo(c) = <<[m |-> loc[c].msg, by |-> c]>>]_vars

\* a healthy connection has received, from its own handler, a log line and
\* a peers message that lists a peer
C21_Witness ==
    \E c \in Conns :
        /\ Attached(c)
        /\ \E i \in DOMAIN Own(c) : Own(c)[i].m.type = "log"
        /\ \E i \in DOMAIN Own(c) : Own(c)[i].m.type = "usecase"
        /\ Own(c)[Len(Own(c))].m.peers # {}

\* a Trace, Tracef, Debug or Debugf call has returned
TraceDone(p) == pc[p] = "idle" /\ loc[p].op = "Trace"

\* C22: a Trace, Tracef, Debug or Debugf call that has returned has appended
\* its line to the log buffer and handed it to one broadcast, whatever
\* enableTrace and enableDebug are; the setting of its level decides only
\* whether the line was printed to stdout.  A connection that is in wsConns
\* when the broadcast ends has received the line.
C22_TraceAlwaysBroadcast ==
    /\ [](\A p \in Workers :
            TraceDone(p)
                => /\ \E i \in DOMAIN appended : appended[i] = loc[p].line
                   /\ loc[p].sent = <<LogMsg(loc[p].line)>>
                   /\ loc[p].log.stdout = StdoutEnabled(loc[p].log))
    /\ [][\A p \in Workers :
            (loc[p].op = "Trace" /\ pc[p] = "bc_loop" /\ pc'[p] # "bc_loop")
                => \A c \in wsConns :
                       \E i \in DOMAIN received[c] :
                           received[c][i] = [m |-> LogMsg(loc[p].line), by |-> p]]_vars

\* a Trace or Debug call made with both settings false has returned without
\* printing, and a subscriber has received its line
C22_Witness ==
    \E p \in Workers :
        /\ TraceDone(p)
        /\ ~loc[p].log.enableTrace /\ ~loc[p].log.enableDebug /\ ~loc[p].log.stdout
        /\ \E c \in wsConns : \E i \in DOMAIN received[c] :
               received[c][i].m = LogMsg(loc[p].line)

\* C23: the slice a getLogs call returned holds, in insertion order, the last
\* lines that had been appended when it returned, ending with the line
\* appended last before the call, and appendLog calls made since have not
\* changed it.
C23_GetLogsAfterAppend ==
    \A p \in Workers :
        loc[p].op = "getLogs"
            => LET r == Lines(loc[p].copyLogs)
                   n == loc[p].copyLogs.n IN
               /\ Len(r) <= n
               /\ r = LastN(SubSeq(appended, 1, n), Len(r))
               /\ n > 0 => (r # <<>> /\ r[Len(r)] = appended[n])

\* a caller holds a slice with a line, returned before the line that is now
\* the last of the log buffer was appended
C23_Witness ==
    \E p \in Workers :
        /\ loc[p].op = "getLogs"
        /\ Lines(loc[p].copyLogs) # <<>>
        /\ logs # <<>> /\ Len(appended) > loc[p].copyLogs.n
        /\ logs[Len(logs)] # Lines(loc[p].copyLogs)[Len(Lines(loc[p].copyLogs))]

\* the step is taken by p in a polling request
PollStep(p) ==
    /\ loc'[p].op = "apiPoll"
    /\ pc'[p] # pc[p] \/ loc'[p] # loc[p] \/ ops' # ops

HeldBy(p) == {m \in Mutexes : Holds(p, m)}

\* C25: no goroutine holds more than one of peersMu, ucMu, wsMu and logMu at
\* the same moment.
C25_OneLockAtATime ==
    \A p \in Procs : Cardinality(HeldBy(p)) <= 1

\* C26: the goroutine that writes a message to a websocket connection in a
\* broadcast holds no mutex while it writes.
C26_NoLockWhilePushing ==
    [][\A p \in Procs :
        (pc[p] \in {"bc_loop", "bc_blocked"} /\ loc'[p].pending # loc[p].pending)
            => HeldBy(p) = {}]_vars


\* the handler of p takes its value-update step after the accessor returned an error
FailedAccessorStep(p) ==
    /\ pc[p] = "h_dispatch"
    /\ pc'[p] # "h_dispatch"
    /\ loc[p].err

\* C27: when the accessor of a value-update event returns an error, the handler
\* leaves every field of the peer's usecaseData as it was and goes on to
\* updateEntitiesFromDevice.
C27_FailedAccessorChangesNothing ==
    [][\A p \in Workers :
          FailedAccessorStep(p) =>
              /\ heap'[loc[p].peer].usecaseData = heap[loc[p].peer].usecaseData
              /\ pc'[p] = "uefd"]_vars


\* the handler invocation of p has returned after rendering, caching and
\* broadcasting the entity tree of its peer
EntitiesRefreshed(p) ==
    LET l == loc[p]
        m == EntitiesMsg(l.ski, "entities")
    IN /\ l.peer # Nil
       /\ l.sent # <<>>
       /\ l.sent[Len(l.sent)] = m
       /\ heap[l.peer].ski = l.ski
       /\ heap[l.peer].entities = "entities"
       /\ heap[l.peer].lastEntitiesJSON = m

EvictedLines == {appended[i] : i \in 1..(Len(appended) - Len(logs))}

\* C29: a log line that a subscriber has received through a broadcast was
\* stored before: it is in the log buffer, or it has been dropped from it by
\* the capacity bound since.
C29_StoredBeforePushed ==
    \A c \in Conns : \A i \in DOMAIN received[c] :
        (received[c][i].m.type = "log" /\ received[c][i].by \in Workers)
            => \/ received[c][i].m.line \in {logs[k] : k \in DOMAIN logs}
               \/ received[c][i].m.line \in EvictedLines

\* a subscriber holds a broadcast line that is in the buffer and one that the
\* capacity bound has dropped since
C29_Witness ==
    \E c \in Conns : \E i, j \in DOMAIN received[c] :
        /\ received[c][i].by \in Workers
        /\ received[c][j].by \in Workers
        /\ received[c][i].m.type = "log"
        /\ received[c][j].m.type = "log"
        /\ received[c][i].m.line \in EvictedLines
        /\ received[c][i].m.line \notin {logs[k] : k \in DOMAIN logs}
        /\ received[c][j].m.line \in {logs[k] : k \in DOMAIN logs}


\* the mutex a goroutine on its way through Errorf is about to lock
ErrorfWaitsFor(p) ==
    IF pc[p] = "errorf" THEN {"peersMu"}
    ELSE IF pc[p] = "al" THEN {"logMu"}
    ELSE IF pc[p] = "bc_lock" THEN {"wsMu"}
    ELSE {}

\* C30: an operation in which a message failed to encode never waits for a
\* mutex it holds itself, and when it has returned it holds no lock, has
\* logged one line per failure and has handed none of the failed messages to
\* a broadcast.
C30_MarshalErrorSkipsOneMessage ==
    \A p \in Workers :
        loc[p].failed # <<>>
            => /\ ErrorfWaitsFor(p) \cap HeldBy(p) = {}
               /\ pc[p] = "idle"
                    => /\ HeldBy(p) = {}
                       /\ Cardinality(OfType(loc[p].sent, "log")) = Len(loc[p].failed)
                       /\ \A i \in DOMAIN loc[p].failed :
                              \A j \in DOMAIN loc[p].sent : loc[p].sent[j] # loc[p].failed[i]


\* the mutex a goroutine inside a logger call is about to lock: peersMu in
\* extractSKIFromMessage, then logMu and wsMu in appendLog
LoggerWaitsFor(p) ==
    IF pc[p] \in {"poll_errorf", "errorf"} THEN {"peersMu"}
    ELSE IF pc[p] = "al" THEN {"logMu"}
    ELSE IF pc[p] = "bc_lock" /\ loc[p].msg.type = "log" THEN {"wsMu"}
    ELSE {}

\* C31: a logger call never waits for a mutex its own goroutine holds, whatever
\* context calls it (so it can always go on, append its line and return), and
\* a polling request that has logged an encode error and returned has its line
\* among the appended lines.
C31_LoggerNeverBlocksItself ==
    \A p \in Workers :
        /\ LoggerWaitsFor(p) \cap HeldBy(p) = {}
        /\ (pc[p] = "idle" /\ loc[p].op = "apiPoll" /\ loc[p].line.id # 0)
              => \E i \in DOMAIN appended : appended[i] = loc[p].line


\* the whitespace-delimited words of msg as pairs <<first, last>> of positions
WordSpans(msg) ==
    LET starts == {a \in 1..Len(msg) :
                      msg[a] \notin WhiteSpace /\ (a = 1 \/ msg[a - 1] \in WhiteSpace)}
        ends == {b \in 1..Len(msg) :
                    msg[b] \notin WhiteSpace /\ (b = Len(msg) \/ msg[b + 1] \in WhiteSpace)}
    IN {sp \in starts \X ends :
           /\ sp[1] <= sp[2]
           /\ \A b \in ends : b < sp[1] \/ sp[2] <= b}

\* the word at sp without the delimiters at its ends
Trimmed(msg, sp) ==
    LET inner == {i \in sp[1]..sp[2] : msg[i] \notin Delimiters} IN
    IF inner = {} THEN <<>>
    ELSE SubSeq(msg, CHOOSE i \in inner : \A j \in inner : i <= j,
                     CHOOSE i \in inner : \A j \in inner : j <= i)

\* the words of msg that are 64 hexadecimal characters once trimmed
HexSpans(msg) ==
    {sp \in WordSpans(msg) :
        /\ Len(Trimmed(msg, sp)) = 64
        /\ \A i \in DOMAIN Trimmed(msg, sp) : Trimmed(msg, sp)[i] \in HexChars}

\* what C32 says the result for msg is, with the identifiers in known registered
ExpectedSKI(msg, known, r) ==
    IF \E k \in known : Contains(msg, SkiChars(k))
    THEN \E k \in known : Contains(msg, SkiChars(k)) /\ r = SkiChars(k)
    ELSE IF HexSpans(msg) = {} THEN r = <<>>
    ELSE \E sp \in HexSpans(msg) :
            /\ \A other \in HexSpans(msg) : sp[1] <= other[1]
            /\ r = Trimmed(msg, sp)

\* C32: extractSKIFromMessage returns a registered identifier that occurs in
\* the message if there is one, otherwise the first whitespace-delimited word
\* that is 64 hexadecimal characters after trimming [ ] ( ) : ; , . " from its
\* ends, otherwise the empty string; and the call leaves the peers map as it was.
C32_ExtractSKI ==
    /\ [](\A p \in Workers :
            loc[p].op = "extractSKIFromMessage"
                => ExpectedSKI(loc[p].x.msg, loc[p].x.known, loc[p].x.ski))
    /\ [][\A p \in Workers :
            (loc'[p].op = "extractSKIFromMessage" /\ loc'[p] # loc[p])
                => /\ peers' = peers
                   /\ heap' = heap
                   /\ loc'[p].x.known = DOMAIN peers]_vars

\* with a peer registered, a call on a message that contains no registered
\* identifier has returned the second word, trimmed, because the first word is
\* not 64 hexadecimal characters
C32_Witness ==
    \E p \in Workers :
        /\ loc[p].op = "extractSKIFromMessage"
        /\ loc[p].x.known # {}
        /\ loc[p].x.ski = Rep("b", 64)
        /\ Head(loc[p].x.msg) = "a"


\* a write to connection c fails in this step: a push of a broadcast loop, or
\* a write of the /ws/logs handler while it sends the initial snapshot
FailedPush(c) ==
    /\ health[c] = "broken"
    /\ \/ pushes'[c] > pushes[c]
       \/ pc[c] = "ws_sendlogs" /\ pc'[c] # "ws_sendlogs"
       \/ pc[c] = "ws_sendstate" /\ pc'[c] # "ws_sendstate"

\* C33: a step in which a write to a subscriber fails, in a broadcast or in
\* the initial snapshot of the /ws/logs handler, and the step in which the
\* handler detaches leave the subscriber out of wsConns; a subscriber once
\* removed is not added again and receives nothing more.
C33_RemovedAtFirstFailedPush ==
    [][\A c \in Conns :
          /\ FailedPush(c) => c \notin wsConns'
          /\ pc'[c] = "ws_closed" => c \notin wsConns'
          /\ (c \in evicted \/ pc[c] = "ws_closed")
                => (c \notin wsConns' /\ received'[c] = received[c])]_vars


\* C34: no goroutine panics: no logger call and no event handler ends in a
\* nil dereference or a write to a nil map, whenever it is called after the
\* logger and the handlers are registered.
C34_NoPanic ==
    \A p \in Procs : pc[p] # "panic"


\* the fields of peer records that the next step of goroutine p writes while
\* it holds no mutex, as pairs <<record, field>>
UnlockedWrites(p) ==
    LET l == loc[p] IN
    IF pc[p] \in {"rc_set", "rd_set"} THEN {<<l.peer, "connected">>}
    ELSE IF pc[p] = "v_set" THEN {<<l.peer, "deviceName">>, <<l.peer, "connected">>}
    ELSE IF pc[p] = "sufp_set" /\ l.peer # Nil THEN {<<l.peer, "usecaseState">>}
    ELSE IF pc[p] = "h_dispatch" /\ l.calls = 0 /\ l.event # SupportUpdate
            /\ (~l.err \/ l.event = DataUpdateEnergyDemand)
         THEN {<<l.peer, "usecaseData">>}
    ELSE IF pc[p] = "uefd" /\ l.peer # Nil /\ l.dev
         THEN {<<l.peer, "entities">>, <<l.peer, "lastEntitiesJSON">>}
    ELSE {}

\* the fields of peer records that the next step of goroutine p reads under
\* peersMu, when the mutex is free for it to take: broadcastPeerList
LockedReads(p) ==
    IF pc[p] = "bpl" /\ mu["peersMu"] = Free
    THEN {<<peers[k], f>> : k \in DOMAIN peers, f \in {"connected", "usecaseState", "deviceName"}}
    ELSE {}

\* C35: no two goroutines are about to access the same field of the same peer
\* record with at least one of them writing and the write made outside every
\* mutex.
C35_NoDataRace ==
    \A p, q \in Procs :
        p # q => UnlockedWrites(p) \cap (UnlockedWrites(q) \cup LockedReads(q)) = {}


\* use-case, connection and discovery events
PeerEvents ==
    Handlers \cup {"RemoteSKIConnected", "RemoteSKIDisconnected", "VisibleRemoteServicesUpdated"}

\* C36: a step of a use-case event or of a connection event for one peer
\* leaves every record of every other peer as it was, field by field.
C36_OtherPeersUntouched ==
    [][\A p \in Workers :
          (loc'[p].op \in PeerEvents /\ (pc'[p] # pc[p] \/ loc'[p] # loc[p]))
              => \A ski \in SKIs :
                     ski = (IF pc[p] = "idle" THEN loc'[p].ski ELSE loc[p].ski)
                         => \A i \in DOMAIN heap : heap[i].ski # ski => heap'[i] = heap[i]]_vars

\* with both peers registered, an LPC support event for one of them has
\* returned: its record has the flag set and the other record has not
C36_Witness ==
    \E p \in Workers : \E other \in DOMAIN peers :
        /\ Done(p)
        /\ loc[p].event = SupportUpdate
        /\ loc[p].ski \in DOMAIN peers
        /\ other # loc[p].ski
        /\ heap[peers[loc[p].ski]].usecaseState["LPC"]
        /\ ~heap[peers[other]].usecaseState["LPC"]


\* the /ws/logs handler of connection c is about to write a message of the
\* initial snapshot to c
SnapshotWrites(c) ==
    \/ pc[c] = "ws_sendlogs"
    \/ pc[c] = "ws_sendstate" /\ mu["ucMu"] = Free

\* goroutine p is inside a broadcast loop and has still to write to c
BroadcastWrites(p, c) == pc[p] = "bc_loop" /\ c \in loc[p].pending

\* C37: a goroutine that is about to write to a registered connection holds
\* wsMu, so that no two goroutines write to the same connection at the same
\* time.
C37_OneWriterPerConnection ==
    \A c \in wsConns :
        /\ SnapshotWrites(c) => mu["wsMu"] = c
        /\ \A p \in Procs :
              BroadcastWrites(p, c) => (mu["wsMu"] = p /\ ~SnapshotWrites(c))

\* the step is the call of RemoteSKIDisconnected by p for an identifier that
\* has no record
DisconnectsUnknown(p) ==
    /\ ops' # ops
    /\ loc'[p].op = "RemoteSKIDisconnected"
    /\ loc'[p].ski \notin DOMAIN peers

\* p has finished a call of RemoteSKIConnected whose identifier had no record
ConnectedUnknown(p) ==
    /\ pc[p] = "idle"
    /\ loc[p].op = "RemoteSKIConnected"
    /\ ~loc[p].found

\* C38: RemoteSKIDisconnected for an identifier without a record ends at once,
\* leaving the peers map, every record and every websocket connection as they
\* were; a finished RemoteSKIConnected for an identifier without a record has
\* stored a record under that identifier with connected = true and has
\* broadcast exactly one message, a peers message that lists the record.
C38_ConnectionEventsOnUnknownPeer ==
    /\ [][\A p \in Workers :
            DisconnectsUnknown(p)
                => /\ pc'[p] = "idle"
                   /\ loc'[p].sent = <<>>
                   /\ peers' = peers
                   /\ heap' = heap
                   /\ UNCHANGED wsVars]_vars
    /\ [](\A p \in Workers :
            ConnectedUnknown(p)
                => /\ loc[p].ski \in DOMAIN peers
                   /\ peers[loc[p].ski] = loc[p].peer
                   /\ heap[loc[p].peer].connected
                   /\ Len(loc[p].sent) = 1
                   /\ loc[p].sent[1].type = "peers"
                   /\ [ski |-> loc[p].ski, connected |-> TRUE]
                        \in {[ski |-> i.ski, connected |-> i.connected] :
                                i \in loc[p].sent[1].peers})

\* a RemoteSKIConnected for an unknown identifier has finished with a client
\* attached that received its peers message, after a RemoteSKIDisconnected for
\* an identifier without a record
C38_Witness ==
    \E p \in Workers :
        /\ ConnectedUnknown(p)
        /\ ops = MaxScenarioOps
        /\ Cardinality(DOMAIN peers) = 1
        /\ Len(heap) = 1
        /\ \E c \in wsConns : \E i \in 1..Len(received[c]) :
               received[c][i] = [m |-> loc[p].sent[1], by |-> p]

\* C39: every record stored under a key of the peers map carries that key as
\* its ski, and no step changes the ski of a record once it is allocated.
C39_SkiIsTheKey ==
    /\ [](\A k \in DOMAIN peers : heap[peers[k]].ski = k)
    /\ [][\A i \in DOMAIN heap : heap'[i].ski = heap[i].ski]_vars

\* an identifier was removed and created again: its old record is out of the
\* map, its new record is stored under it and has been written to since
C39_Witness ==
    \E k \in DOMAIN peers :
        /\ removed # {}
        /\ \A i \in removed : heap[i].ski = k /\ peers[k] # i
        /\ heap[peers[k]].connected

====
